---------------------------- MODULE Spec2Model ----------------------------
(***************************************************************************)
(* Version propagation of plasmactl-component (component:sync).            *)
(*                                                                         *)
(* A version is a string; it is modelled as a sequence of one-character    *)
(* strings in which every letter stands for one 13-character commit hash   *)
(* and "-" is the separator of a compound version BASE-PROPAGATED.         *)
(***************************************************************************)
EXTENDS Integers, Sequences, FiniteSets, TLC

VARIABLES
    \* functions called on their own
    added,             \* the items passed to AddToTimeline, in order
    lookup,            \* a call of lookupDependencies
    ordering,          \* a call of OrderedMap.OrderBy
    brute,             \* a call of processAllSections
    \* the goroutines of getComponentsMaps
    gcm,
    \* the goroutines of populateTimelineComponents
    ptc, fct, mx,
    \* collectComponentsCommits over the log of a repository
    history,           \* the commits r.Log yields, HEAD first
    beforeDate,        \* s.TimeDepth as a date, 0 when it is not set
    cc,                \* the locals of collectComponentsCommits and its result
    \* NewInventory over a source tree
    tree,              \* the files of the tree: metadata and task files
    inv,               \* the Inventory under construction
    walkIdx,           \* next file of filepath.Walk
    invPc,             \* position in buildComponentsGraph
    \* composeVersion applied to a pair of strings
    oldVersion, newVersion, version,
    \* the source trees and the git history a sync run reads
    requires,          \* component -> names its tasks/dependencies.yaml includes
    roles,             \* roles of the platform playbooks
    headVersion,       \* component -> version in HEAD's copy of its metadata
    anchorDate,        \* component -> date of the commit that set its version
    changedVariables,  \* the variable changes populateTimelineVars reports
    metaVersion,       \* component -> version in BuildDir's meta/plasma.yaml
    namespaceComponents, \* namespace -> the components its tree holds
    namespaceVersion,  \* namespace -> component -> version in its tree's metadata
    writeFails,        \* components whose metadata UpdateVersion cannot store
    \* options of the action
    AllowOverride, DryRun, FilterByComponentUsage,
    \* getComponentsMaps
    componentsMap,     \* namespace -> OrderedMap of its components
    collected,         \* componentsMap before the conflicts are resolved
    resolveIdx,        \* next build component of the conflict loop
    \* the run
    run,               \* number of the run (1: first)
    pc,                \* position of the run in propagate()
    err,               \* error the run returned
    timeline,          \* s.timeline
    idx,               \* next timeline item of buildPropagationMap's loop
    processed, componentVersionMap, toSync,
    handled,           \* per handled item: toProcess, and the maps before it
    updateMap, sortList,
    updateIdx,         \* next element of sortList in the write loop
    planned,           \* versions read while planning: key -> <<base, current>>
    skipWarnings,      \* component -> number of "identical versions" warnings
    written,           \* components passed to UpdateVersion, in order
    firstRun,          \* BuildDir's versions and the end of the first run
    startVersion,      \* BuildDir's versions when the current run began
    dryRunPlan         \* the timeline and the plan of a run made with DryRun

callVars == <<added, lookup, ordering, brute>>

collectVars == gcm

goVars == <<ptc, fct, mx>>

gitVars == <<history, beforeDate, cc>>

invVars == <<tree, inv, walkIdx, invPc>>

fnVars == <<oldVersion, newVersion, version>>

inputVars == <<requires, roles, headVersion, anchorDate, changedVariables,
               namespaceComponents, namespaceVersion, writeFails,
               AllowOverride, DryRun, FilterByComponentUsage>>

mapVars == <<componentsMap, collected, resolveIdx>>

propVars == <<idx, processed, componentVersionMap, toSync, handled>>

updateVars == <<updateMap, sortList, updateIdx, planned, skipWarnings, written>>

historyVars == <<firstRun, startVersion, dryRunPlan>>

runVars == <<metaVersion, run, pc, err, timeline, propVars, updateVars, historyVars>>

vars == <<callVars, collectVars, goVars, gitVars, invVars, fnVars, inputVars, mapVars, runVars>>

\* Marker of a version that is not computed yet (no string over the hashes).
NotComputed == <<"none">>

Dash == "-"

-----------------------------------------------------------------------------
(* Bounds *)

\* Longest version string the composeVersion harness enumerates.
MaxLen == 3

\* Commit dates are 1..MaxDate; HEAD is the commit of date MaxDate.
MaxDate == 2

\* Number of consecutive sync runs on the same trees.
MaxRuns == 2

\* Longest log of commits collectComponentsCommits is applied to.
MaxCommits == 3

-----------------------------------------------------------------------------
(* Strings *)

\* Characters of the enumerated version strings.
Chars == {"a", "c", Dash}

\* All strings over Chars of length at most n.
StringsUpTo(n) == UNION {[1..k -> Chars] : k \in 0..n}

\* Index of the first "-" at or after position i of s, 0 when there is none.
RECURSIVE IndexFrom(_, _)
IndexFrom(s, i) ==
    IF i > Len(s) THEN 0
    ELSE IF s[i] = Dash THEN i
    ELSE IndexFrom(s, i + 1)

\* strings.Split(s, "-"): the substrings between the separators; one element
\* (s itself, also when s is empty) when s holds no separator.
RECURSIVE Split(_)
Split(s) ==
    LET i == IndexFrom(s, 1)
    IN  IF i = 0 THEN <<s>>
        ELSE <<SubSeq(s, 1, i - 1)>> \o Split(SubSeq(s, i + 1, Len(s)))

\* fmt.Sprintf("%s-%s", x, y)
Sprintf(x, y) == x \o <<Dash>> \o y

\* Component.GetBaseVersion: the first element of the split version.
GetBaseVersion(v) == Split(v)[1]

\* A slip composeVersion could make: a compound old version is kept whole.
composeVersionKeepsOld(old, new) ==
    IF Len(Split(new)) > 1 THEN new ELSE Sprintf(old, new)

composeVersion(old, new) ==
    IF Len(Split(new)) > 1
    THEN new
    ELSE LET split == Split(old)
         IN  IF Len(split) = 1 THEN Sprintf(old, new)
             ELSE IF Len(split) > 1 THEN Sprintf(split[1], new)
             ELSE new

-----------------------------------------------------------------------------
(* Components *)

\* The components of scenarios S1 and S4: layer.kind.role.
CompA == "L.applications.a"
CompB == "L.services.b"
CompC == "L.libraries.c"
CompX == "L.other.x"

Comps == {CompA, CompB, CompC, CompX}

\* The component names in the order of sort.Strings.
SortedNames == <<CompA, CompC, CompX, CompB>>

Rank(name) == CHOOSE i \in 1..Len(SortedNames) : SortedNames[i] = name

\* Component.GetKind: the second part of the dotted name.
GetKind(name) ==
    CASE name = CompA -> "applications"
      [] name = CompB -> "services"
      [] name = CompC -> "libraries"
      [] name = CompX -> "other"

\* Kinds whose version can be propagated.
Kinds == {"applications", "services", "softwares", "executors", "flows",
          "skills", "functions", "libraries", "entities"}

\* A slip IsUpdatableKind could make: every kind is updatable.
IsUpdatableKindAny(kind) == TRUE

IsUpdatableKind(kind) == kind \in Kinds

-----------------------------------------------------------------------------
(* Sequences *)

Range(seq) == {seq[i] : i \in 1..Len(seq)}

\* The sequences that hold every element of the finite set S exactly once:
\* the orders in which Go may iterate a map with these keys.
RECURSIVE Orders(_)
Orders(S) ==
    IF S = {} THEN {<<>>}
    ELSE UNION {{<<x>> \o rest : rest \in Orders(S \ {x})} : x \in S}

\* The elements of S (component names) in the order of sort.Strings.
RECURSIVE SortStrings(_)
SortStrings(S) ==
    IF S = {} THEN <<>>
    ELSE LET first == CHOOSE k \in S : \A o \in S : Rank(k) <= Rank(o)
         IN  <<first>> \o SortStrings(S \ {first})

\* seq without its i-th element.
RemoveAt(seq, i) == SubSeq(seq, 1, i - 1) \o SubSeq(seq, i + 1, Len(seq))

-----------------------------------------------------------------------------
(* OrderedMap: keys in insertion order and a dictionary *)

NewOrderedMap == [keys |-> <<>>, dict |-> <<>>]

OMHas(m, key) == key \in DOMAIN m.dict

OMSet(m, key, value) ==
    [keys |-> IF OMHas(m, key) THEN m.keys ELSE Append(m.keys, key),
     dict |-> [k \in DOMAIN m.dict \cup {key} |-> IF k = key THEN value ELSE m.dict[k]]]

\* Unset removes the key at the last index that holds it, and the entry.
OMUnset(m, key) ==
    [keys |-> IF OMHas(m, key) /\ key \in Range(m.keys)
              THEN RemoveAt(m.keys,
                            CHOOSE i \in 1..Len(m.keys) :
                                /\ m.keys[i] = key
                                /\ \A j \in (i + 1)..Len(m.keys) : m.keys[j] # key)
              ELSE m.keys,
     dict |-> [k \in DOMAIN m.dict \ {key} |-> m.dict[k]]]

\* SortKeysAlphabetically: sort.Strings on the keys (they are distinct).
SortKeysAlphabetically(m) == [m EXCEPT !.keys = SortStrings(Range(m.keys))]

-----------------------------------------------------------------------------
(* Timeline *)

ComponentsType == "components"
VariablesType == "variables"

\* NewTimelineComponentsItem followed by AddComponent(c); the member's value is
\* the path prefix of the component it points to.
NewTimelineComponentsItem(ver, commit, date, name, prefix) ==
    [type |-> ComponentsType, version |-> ver, commit |-> commit, date |-> date,
     members |-> OMSet(NewOrderedMap, name, prefix)]

\* NewTimelineVariablesItem followed by AddVariable(v).
NewTimelineVariablesItem(ver, commit, date, name) ==
    [type |-> VariablesType, version |-> ver, commit |-> commit, date |-> date,
     members |-> OMSet(NewOrderedMap, name, TRUE)]

\* Merge: the keys of the other item that the recipient does not hold yet are
\* set, in the other item's order; the recipient's entries are kept.
RECURSIVE MergeKeys(_, _, _)
MergeKeys(m, other, i) ==
    IF i > Len(other.keys) THEN m
    ELSE LET key == other.keys[i]
         IN  MergeKeys(IF OMHas(m, key) THEN m ELSE OMSet(m, key, other.dict[key]),
                       other, i + 1)

\* A slip of Merge: the entries of the other item replace the recipient's.
MergeOverwrites(item, other) ==
    [item EXCEPT !.members = MergeKeys(other.members, item.members, 1)]

Merge(item, other) == [item EXCEPT !.members = MergeKeys(item.members, other.members, 1)]

\* AddToTimeline: merge into the first item of the same variant with equal
\* version and date, else append.
AddToTimeline(list, item) ==
    LET same(i) == /\ list[i].type = item.type
                   /\ list[i].version = item.version
                   /\ list[i].date = item.date
    IN  IF \E i \in 1..Len(list) : same(i)
        THEN LET first == CHOOSE i \in 1..Len(list) :
                              same(i) /\ \A j \in 1..(i - 1) : ~same(j)
             IN  [list EXCEPT ![first] = Merge(list[first], item)]
        ELSE Append(list, item)

SortAsc == "asc"
SortDesc == "desc"

\* The less function SortTimeline hands to sort.Slice.
TimelineLess(x, y, order) ==
    IF x.date # y.date
    THEN IF order = SortAsc THEN x.date < y.date ELSE x.date > y.date
    ELSE IF x.type = VariablesType
         THEN (y.type = ComponentsType /\ order = SortAsc)
         ELSE (y.type = VariablesType /\ order = SortDesc)

\* The arrangements of the items at the positions in S in which no item is
\* less than one placed before it.
RECURSIVE SortedOrders(_, _, _)
SortedOrders(list, S, order) ==
    IF S = {} THEN {<<>>}
    ELSE UNION {{<<list[i]>> \o rest : rest \in SortedOrders(list, S \ {i}, order)} :
                i \in {k \in S : \A j \in S : ~TimelineLess(list[j], list[k], order)}}

\* sort.Slice is not stable: every sorted arrangement is a possible result.
SortTimeline(list, order) == SortedOrders(list, 1..Len(list), order)

-----------------------------------------------------------------------------
(* Inventory lookups *)

\* int8 arithmetic of the recursion depth.
Int8(n) == IF n > 127 THEN n - 256 ELSE n

\* lookupDependenciesRecursively: the names added to the result below
\* componentName, at recursion depth `depth` under limit `limit`.
RECURSIVE lookupDependenciesRecursively(_, _, _, _)
lookupDependenciesRecursively(componentName, dependencyMap, depth, limit) ==
    IF depth = limit THEN {}
    ELSE IF componentName \in DOMAIN dependencyMap
         THEN UNION {{item} \cup lookupDependenciesRecursively(
                                    item, dependencyMap, Int8(depth + 1), limit) :
                     item \in dependencyMap[componentName]}
         ELSE {}

lookupDependencies(componentName, dependencyMap, depth) ==
    IF componentName \in DOMAIN dependencyMap
    THEN UNION {{item} \cup lookupDependenciesRecursively(item, dependencyMap, 1, depth) :
                item \in dependencyMap[componentName]}
    ELSE {}

-----------------------------------------------------------------------------
(* Maps *)

MapSet(f, key, value) ==
    [k \in DOMAIN f \cup {key} |-> IF k = key THEN value ELSE f[k]]

MapDelete(f, key) == [k \in DOMAIN f \ {key} |-> f[k]]

-----------------------------------------------------------------------------
(* The inventory of BuildDir *)

\* Path prefixes of the trees.
BuildDir == "build"
DomainDir == "domain"

\* Inventory.componentsMap of the build: every component has its metadata.
GetComponentsMap == Comps

\* Inventory.requiredBy as buildComponentsGraph fills it from the semantic
\* includes: a key for every included name, its value the including components.
GetRequiredByMap ==
    [d \in UNION {requires[c] : c \in DOMAIN requires} |->
        {c \in DOMAIN requires : d \in requires[c]}]

GetRequiresMap == requires

GetRequiredByComponents(componentName, depth) ==
    lookupDependencies(componentName, GetRequiredByMap, depth)

GetRequiresComponents(componentName, depth) ==
    lookupDependencies(componentName, GetRequiresMap, depth)

\* CalculateComponentsUsage: the playbook roles and all they require.
GetUsedComponents ==
    roles \cup UNION {GetRequiresComponents(c, -1) : c \in roles}

-----------------------------------------------------------------------------
(* collectComponentsCommits: the commits of the log, in groups *)

headGroupName == <<"head", 0>>

\* Author name of the commits the bump tool makes (repository.Author).
Author == "bump"

\* The empty string as the hash of a section.
NoSection == <<"", 0>>

\* A commit hash: its first 13 characters, and the rest of it.
CommitHashes == {<<"h1", 1>>, <<"h1", 2>>, <<"h2", 1>>, <<"h3", 1>>}

\* hash[:13]
ShortHash(hash) == hash[1]

NoIterError == <<"", "">>

\* The locals of collectComponentsCommits before the iteration.
CommitsStart ==
    [pc |-> "iterate", idx |-> 1,
     hashes |-> <<>>, commits |-> <<>>,
     section |-> NoSection, sectionName |-> NoSection, sectionDate |-> 0,
     groups |-> NewOrderedMap,
     iterError |-> NoIterError, err |-> NoIterError]

\* collectComponentsCommits is not called.
IdleCommits ==
    /\ history = <<>>
    /\ beforeDate = 0
    /\ cc = [CommitsStart EXCEPT !.pc = "idle"]

CommitsGroup(name, commit, date, items) ==
    [name |-> name, commit |-> commit, date |-> date, items |-> items]

\* The test of the callback on the short hash of a commit.
IsDuplicate(hashes, hash) == hash \in DOMAIN hashes

\* The callback of cIter.ForEach for the commit c, ref being HEAD: the locals
\* after it, with pc "close" when it stops the iteration (ErrStop, or the
\* error of a duplicate short hash, kept in iterError).
VisitCommit(st, c, ref) ==
    LET hash == ShortHash(c.hash)
        registered == [st EXCEPT !.hashes = MapSet(@, hash,
                                     [original |-> c.hash, section |-> NoSection])]
    IN  IF c.when < beforeDate THEN [st EXCEPT !.pc = "close"]
        ELSE IF IsDuplicate(st.hashes, hash)
        THEN [st EXCEPT !.pc = "close",
                        !.iterError = <<"duplicate version hash", hash>>]
        ELSE IF ref = c.hash
        THEN IF c.author = Author
             THEN [registered EXCEPT !.commits = <<>>,
                                     !.sectionDate = c.when,
                                     !.section = c.hash,
                                     !.sectionName = c.hash,
                                     !.hashes[hash].section = c.hash]
             ELSE [registered EXCEPT !.commits = <<c.hash>>,
                                     !.sectionDate = c.when,
                                     !.section = ref,
                                     !.sectionName = headGroupName,
                                     !.hashes[hash].section = headGroupName]
        ELSE IF c.author = Author
        THEN [registered EXCEPT
                 !.groups = OMSet(@, st.section,
                                  CommitsGroup(st.sectionName, st.section,
                                               st.sectionDate, st.commits)),
                 !.section = c.hash,
                 !.sectionName = c.hash,
                 !.sectionDate = c.when,
                 !.commits = <<>>]
        ELSE [registered EXCEPT !.hashes[hash].section = st.section,
                                !.commits = Append(@, c.hash)]

\* One commit of the iteration.
IterateCommit ==
    /\ cc.pc = "iterate"
    /\ cc.idx <= Len(history)
    /\ LET after == VisitCommit(cc, history[cc.idx], history[1].hash)
       IN  cc' = [after EXCEPT !.idx = @ + 1]
    /\ UNCHANGED <<callVars, collectVars, goVars, history, beforeDate, invVars, fnVars, inputVars, mapVars, runVars>>

\* The tail of collectComponentsCommits: the value of ForEach is discarded,
\* the open group is stored, and the maps are returned with a nil error.
ReturnCommits ==
    /\ \/ cc.pc = "close"
       \/ cc.pc = "iterate" /\ cc.idx > Len(history)
    /\ cc' = [cc EXCEPT
                 !.pc = "returned",
                 !.err = NoIterError,
                 !.groups = IF OMHas(@, cc.section) THEN @
                            ELSE OMSet(@, cc.section,
                                       CommitsGroup(cc.sectionName, cc.section,
                                                    cc.sectionDate, cc.commits))]
    /\ UNCHANGED <<callVars, collectVars, goVars, history, beforeDate, invVars, fnVars, inputVars, mapVars, runVars>>

-----------------------------------------------------------------------------
(* NewInventory: buildComponentsGraph over a source tree *)

rootPlatform == "platform"

\* The candidate components of the tree, in the order filepath.Walk visits
\* their directories (lexical order of L/applications/a, L/libraries/c,
\* L/services/b).
Candidates == <<CompA, CompC, CompB>>

\* States of the file meta/plasma.yaml of a candidate.
MetaMissing == "missing"
MetaUnparseable == "unparseable"
MetaValid == "valid"

\* A task of a tasks file that is not an include_role with a name.
OtherTask == "debug"

MetaEntity == "plasma.yaml"
SemanticEntity == "dependencies.yaml"
BuildEntity == "main.yaml"

\* A slip of IsValidComponent: the metadata must hold valid YAML too.
IsValidComponentParsed(c) == tree.meta[c] = MetaValid

\* Component.IsValidComponent: os.Stat finds the metadata file.
IsValidComponent(c) == tree.meta[c] # MetaMissing

\* The files of a candidate that the walk hands to the callback, in lexical
\* order: meta/plasma.yaml, tasks/dependencies.yaml, tasks/main.yaml; a task
\* file that is absent or holds no task has no effect and is left out.
ComponentFiles(c) ==
    (IF tree.meta[c] # MetaMissing
     THEN <<[component |-> c, entity |-> MetaEntity, tasks |-> <<>>]>> ELSE <<>>)
    \o (IF tree.dependencies[c] # <<>>
        THEN <<[component |-> c, entity |-> SemanticEntity, tasks |-> tree.dependencies[c]]>>
        ELSE <<>>)
    \o (IF tree.main[c] # <<>>
        THEN <<[component |-> c, entity |-> BuildEntity, tasks |-> tree.main[c]]>>
        ELSE <<>>)

RECURSIVE WalkFrom(_)
WalkFrom(i) ==
    IF i > Len(Candidates) THEN <<>>
    ELSE ComponentFiles(Candidates[i]) \o WalkFrom(i + 1)

WalkFiles == WalkFrom(1)

\* The Inventory NewInventory hands to Init.
NewInventory ==
    [componentsMap |-> NewOrderedMap,
     requiredBy |-> <<>>, requires |-> <<>>,
     buildRequiredBy |-> <<>>, buildRequires |-> <<>>,
     topOrder |-> <<>>]

\* A slip of the loop over the tasks: the inclusion is set in requiresMap
\* alone.
IncludeRolesOneWay(maps, componentName, tasks, i) ==
    IF Len(tasks) = 0 \/ tasks[1] = OtherTask THEN maps
    ELSE [maps EXCEPT !.requires =
             MapSet(@, componentName, OMSet(maps.requires[componentName], tasks[1], TRUE))]

\* The loop over the tasks of a file: every include_role with a name is set
\* in requiredByMap[depName] and in requiresMap[componentName].
RECURSIVE IncludeRoles(_, _, _, _)
IncludeRoles(maps, componentName, tasks, i) ==
    IF i > Len(tasks) THEN maps
    ELSE IF tasks[i] = OtherTask THEN IncludeRoles(maps, componentName, tasks, i + 1)
    ELSE LET depName == tasks[i]
             requiredByOfDep == IF depName \in DOMAIN maps.requiredBy
                                THEN maps.requiredBy[depName] ELSE NewOrderedMap
         IN  IncludeRoles(
                 [requiredBy |-> MapSet(maps.requiredBy, depName,
                                        OMSet(requiredByOfDep, componentName, TRUE)),
                  requires |-> MapSet(maps.requires, componentName,
                                      OMSet(maps.requires[componentName], depName, TRUE))],
                 componentName, tasks, i + 1)

\* The callback of filepath.Walk for one file.
VisitFile(i, file) ==
    LET componentName == file.component
    IN  IF ~IsValidComponent(componentName) THEN i
        ELSE LET found == IF OMHas(i.componentsMap, componentName) THEN i
                          ELSE [i EXCEPT !.componentsMap = OMSet(@, componentName, BuildDir)]
             IN  IF file.entity = MetaEntity \/ Len(file.tasks) = 0 THEN found
                 ELSE LET isSemanticDeps == file.entity = SemanticEntity
                          requiresMap == IF isSemanticDeps THEN i.requires ELSE i.buildRequires
                          requiredByMap == IF isSemanticDeps THEN i.requiredBy
                                           ELSE i.buildRequiredBy
                          maps == IncludeRoles(
                                      [requiredBy |-> requiredByMap,
                                       requires |-> IF componentName \in DOMAIN requiresMap
                                                    THEN requiresMap
                                                    ELSE MapSet(requiresMap, componentName,
                                                                NewOrderedMap)],
                                      componentName, file.tasks, 1)
                      IN  IF isSemanticDeps
                          THEN [found EXCEPT !.requires = maps.requires,
                                             !.requiredBy = maps.requiredBy]
                          ELSE [found EXCEPT !.buildRequires = maps.requires,
                                             !.buildRequiredBy = maps.requiredBy]

\* platformItems: the keys of requiredBy that are no key of requires.
platformItems(i) == DOMAIN i.requiredBy \ DOMAIN i.requires

\* The edges of a node of the graph built from requiredBy.
GraphEdges(requiredByMap, name) ==
    IF name \in DOMAIN requiredByMap THEN Range(requiredByMap[name].keys) ELSE {}

\* A slip of the sort: a node met again on the path is passed over.
visitNoCycleError(requiredByMap, name, results, visited) ==
    {[error |-> FALSE, results |-> results]}

\* topsort.Graph.visit: depth-first from `name`; a node met again on the
\* current path is a cycle error; the node is added to the results after the
\* nodes of its edges, which are followed in any order.
RECURSIVE visit(_, _, _, _)
RECURSIVE visitEdges(_, _, _, _, _)
visit(requiredByMap, name, results, visited) ==
    IF name \in Range(visited) THEN {[error |-> TRUE, results |-> results]}
    ELSE LET below == UNION {visitEdges(requiredByMap, order, 1,
                                        {[error |-> FALSE, results |-> results]},
                                        Append(visited, name)) :
                             order \in Orders(GraphEdges(requiredByMap, name))}
         IN  {IF o.error \/ name \in Range(o.results) THEN o
              ELSE [o EXCEPT !.results = Append(@, name)] : o \in below}

visitEdges(requiredByMap, order, k, outcomes, visited) ==
    IF k > Len(order) THEN outcomes
    ELSE visitEdges(requiredByMap, order, k + 1,
                    UNION {IF o.error THEN {o}
                           ELSE visit(requiredByMap, order[k], o.results, visited) :
                           o \in outcomes},
                    visited)

\* topsort.Graph.TopSort(name): the outcomes of the visit that starts at name.
TopSort(requiredByMap, name) == visit(requiredByMap, name, <<>>, <<>>)

\* A slip of the reversal: the order is left as TopSort gave it.
ReverseOmitted(seq) == seq

\* The loop that reverses the order in place.
Reverse(seq) == [k \in 1..Len(seq) |-> seq[Len(seq) + 1 - k]]

\* OrderedMap.OrderBy: the keys that orderList names, in its order, then the
\* other keys in the order they had.
OrderBy(m, orderList) ==
    [m EXCEPT !.keys =
        SelectSeq(orderList, LAMBDA item : OMHas(m, item))
        \o SelectSeq(m.keys, LAMBDA key : key \notin Range(orderList))]

RECURSIVE SetAll(_, _, _)
SetAll(m, order, k) ==
    IF k > Len(order) THEN m ELSE SetAll(OMSet(m, order[k], TRUE), order, k + 1)

\* No inventory is built.
IdleInventory ==
    /\ tree = [meta |-> <<>>, dependencies |-> <<>>, main |-> <<>>]
    /\ inv = NewInventory
    /\ walkIdx = 0
    /\ invPc = "idle"

\* One file of the walk.
WalkFile ==
    /\ invPc = "walk"
    /\ walkIdx <= Len(WalkFiles)
    /\ inv' = VisitFile(inv, WalkFiles[walkIdx])
    /\ walkIdx' = walkIdx + 1
    /\ UNCHANGED <<callVars, collectVars, goVars, gitVars, tree, invPc, fnVars, inputVars, mapVars, runVars>>

\* The tail of buildComponentsGraph: the sentinel, the graph, the sort and the
\* reordering of componentsMap.
SortGraph ==
    /\ invPc = "walk"
    /\ walkIdx > Len(WalkFiles)
    /\ \E items \in Orders(platformItems(inv)) :
          LET seeded == MapSet(inv.requiredBy, rootPlatform, SetAll(NewOrderedMap, items, 1))
          IN  \E sorted \in TopSort(seeded, rootPlatform) :
                 IF sorted.error
                 THEN /\ invPc' = "failed"
                      /\ inv' = [inv EXCEPT !.requiredBy = seeded]
                 ELSE /\ invPc' = "ready"
                      /\ inv' = [inv EXCEPT
                                    !.requiredBy = seeded,
                                    !.topOrder = Reverse(sorted.results),
                                    !.componentsMap = OrderBy(@, Reverse(sorted.results))]
    /\ UNCHANGED <<callVars, collectVars, goVars, gitVars, tree, walkIdx, fnVars, inputVars, mapVars, runVars>>

-----------------------------------------------------------------------------
(* Phase 2: getComponentsMaps *)

domainNamespace == "domain"

\* The names of plasmaCompose.Dependencies, in the order of the manifest.
Dependencies == <<"pkg1", "pkg2">>

priorityOrder == Dependencies \o <<domainNamespace>>

Namespaces == Range(priorityOrder)

\* getComponentsMapFrom: the components of the tree of a namespace, the keys
\* sorted.
getComponentsMapFrom(ns) ==
    [keys |-> SortStrings(namespaceComponents[ns]),
     dict |-> [c \in namespaceComponents[ns] |-> ns]]

\* The loop that unsets the unused keys of the map of a namespace.
RECURSIVE UnsetKeys(_, _, _)
UnsetKeys(m, keys, i) ==
    IF i > Len(keys) THEN m
    ELSE CHOOSE result \in
             {UnsetKeys(next, keys, i + 1) :
                 next \in {IF keys[i] \in GetUsedComponents THEN m
                           ELSE OMUnset(m, keys[i])}} : TRUE

\* The head of getComponentsMaps: the map of every namespace; under
\* component-usage filtering no map at all when nothing is used, else the
\* unused components unset.
\* The maps the workers stored, after the usage filter.
RemoveUnused(all) ==
    IF ~FilterByComponentUsage THEN all
    ELSE IF GetUsedComponents = {} THEN <<>>
    ELSE [ns \in DOMAIN all |-> UnsetKeys(all[ns], all[ns].keys, 1)]

CollectedMaps == RemoveUnused([ns \in Namespaces |-> getComponentsMapFrom(ns)])

\* The search for the winner: the last namespace of priorityOrder that has a
\* map in componentsMap.
HighestNamespace(cm, sameVersionNamespaces) ==
    LET i == CHOOSE k \in 1..Len(priorityOrder) :
                 /\ priorityOrder[k] \in DOMAIN cm
                 /\ \A j \in (k + 1)..Len(priorityOrder) : priorityOrder[j] \notin DOMAIN cm
    IN  priorityOrder[i]

\* One iteration of the loop over the build's components: the component is
\* unset in the namespaces whose base version is not the build's version,
\* and, when several are left, in all but the winner of priorityOrder.
ResolveComponent(cm, componentName) ==
    LET conflicts == {ns \in DOMAIN cm : OMHas(cm[ns], componentName)}
        buildVersion == metaVersion[componentName]
        sameVersionNamespaces ==
            {ns \in conflicts :
                GetBaseVersion(namespaceVersion[ns][componentName]) = buildVersion}
        kept == [ns \in DOMAIN cm |->
                    IF ns \in conflicts \ sameVersionNamespaces
                    THEN OMUnset(cm[ns], componentName) ELSE cm[ns]]
        highest == HighestNamespace(kept, sameVersionNamespaces)
    IN  IF Cardinality(conflicts) < 2 THEN cm
        ELSE IF Cardinality(sameVersionNamespaces) > 1
             THEN [ns \in DOMAIN kept |->
                      IF ns # highest THEN OMUnset(kept[ns], componentName) ELSE kept[ns]]
             ELSE kept

\* buildComponents.Keys()
BuildKeys == SortStrings(GetComponentsMap)

RECURSIVE ResolveComponents(_, _)
ResolveComponents(cm, i) ==
    IF i > Len(BuildKeys) THEN cm
    ELSE CHOOSE result \in
             {ResolveComponents(next, i + 1) :
                 next \in {ResolveComponent(cm, BuildKeys[i])}} : TRUE

\* The result of getComponentsMaps.
getComponentsMaps ==
    CHOOSE result \in
        {IF cm = <<>> THEN <<>> ELSE ResolveComponents(cm, 1) : cm \in {CollectedMaps}} : TRUE

-----------------------------------------------------------------------------
(* Phase 3: the timeline of component and variable changes *)

buildHackAuthor == "override"

\* Hash of the commit of a date (one commit per date).
CommitHash(date) == <<"commit", date>>

\* The hash recorded for an overridden component.
OverrideHash == <<buildHackAuthor, 0>>

NoError == <<"", "">>

\* A slip of processComponent: a version that differs from HEAD's is taken
\* as an override whether or not AllowOverride is set.
processComponentUnchecked(component, now) ==
    LET currentVersion == metaVersion[component]
        overridden == currentVersion # headVersion[component]
    IN  [error |-> NoError,
         item |-> IF overridden
                  THEN NewTimelineComponentsItem(currentVersion, OverrideHash,
                                                 now, component, DomainDir)
                  ELSE NewTimelineComponentsItem(currentVersion,
                                                 CommitHash(anchorDate[component]),
                                                 anchorDate[component],
                                                 component, DomainDir)]

\* A slip of processComponent: an overridden component keeps the hash and the
\* date of the HEAD commit.
processComponentHeadAnchor(component, now) ==
    LET currentVersion == metaVersion[component]
        overridden == currentVersion # headVersion[component]
    IN  IF overridden /\ ~AllowOverride
        THEN [error |-> <<"doesn't match HEAD commit", component>>, item |-> <<>>]
        ELSE [error |-> NoError,
              item |-> IF overridden
                       THEN NewTimelineComponentsItem(currentVersion, CommitHash(MaxDate),
                                                      MaxDate, component, DomainDir)
                       ELSE NewTimelineComponentsItem(currentVersion,
                                                      CommitHash(anchorDate[component]),
                                                      anchorDate[component],
                                                      component, DomainDir)]

\* processComponent for one component of the domain namespace; `now` is the
\* value of time.Now() at its call. The result is an error or the item the
\* component adds to the timeline.
processComponent(component, now) ==
    LET currentVersion == metaVersion[component]
        overridden == currentVersion # headVersion[component]
    IN  IF overridden /\ ~AllowOverride
        THEN [error |-> <<"doesn't match HEAD commit", component>>, item |-> <<>>]
        ELSE [error |-> NoError,
              item |-> IF overridden
                       THEN NewTimelineComponentsItem(currentVersion, OverrideHash,
                                                      now, component, DomainDir)
                       ELSE NewTimelineComponentsItem(currentVersion,
                                                      CommitHash(anchorDate[component]),
                                                      anchorDate[component],
                                                      component, DomainDir)]

\* The components of the domain namespace that getComponentsMaps hands on.
NamespaceComponents ==
    IF domainNamespace \in DOMAIN componentsMap
    THEN Range(componentsMap[domainNamespace].keys)
    ELSE {}

\* A slip of populateTimelineComponents: the error of a worker is dropped and
\* the other components are still processed.
RECURSIVE populateTimelineComponentsLenient(_, _, _)
populateTimelineComponentsLenient(list, order, i) ==
    IF i > Len(order) THEN [error |-> NoError, timeline |-> list]
    ELSE LET res == processComponent(order[i], MaxDate + i)
         IN  populateTimelineComponentsLenient(
                 IF res.error # NoError THEN list ELSE AddToTimeline(list, res.item),
                 order, i + 1)

\* populateTimelineComponents with the workers finishing in `order`: the
\* first error ends it, every component before it has added its item.
RECURSIVE populateTimelineComponents(_, _, _)
populateTimelineComponents(list, order, i) ==
    IF i > Len(order) THEN [error |-> NoError, timeline |-> list]
    ELSE LET res == processComponent(order[i], MaxDate + i)
         IN  IF res.error # NoError
             THEN [error |-> res.error, timeline |-> list]
             ELSE populateTimelineComponents(AddToTimeline(list, res.item), order, i + 1)

\* populateTimelineVars: one VariablesItem per changed variable.
RECURSIVE populateTimelineVars(_, _)
populateTimelineVars(list, i) ==
    IF i > Len(changedVariables) THEN list
    ELSE LET v == changedVariables[i]
         IN  populateTimelineVars(
                 AddToTimeline(list,
                     NewTimelineVariablesItem(v.version, CommitHash(v.date), v.date, v.name)),
                 i + 1)

\* Inventory.GetVariableComponents: the components that consume a variable.
GetVariableComponents(name) ==
    LET v == CHOOSE c \in Range(changedVariables) : c.name = name
    IN  v.components

-----------------------------------------------------------------------------
(* Phase 5: buildPropagationMap *)

\* A slip of the closure walk: a processed dependent is assigned again.
HandleDepOverwrites(st, dep, ver) ==
    IF dep \notin GetComponentsMap THEN st
    ELSE LET marked == [st EXCEPT !.processed = @ \cup {dep}]
         IN  IF ~IsUpdatableKind(GetKind(dep)) THEN marked
             ELSE [marked EXCEPT
                      !.toSync = OMSet(@, dep, BuildDir),
                      !.componentVersionMap = MapSet(@, dep, ver)]

\* A slip of the closure walk: the dependent is not marked processed.
HandleDepUnmarked(st, dep, ver) ==
    IF dep \notin GetComponentsMap THEN st
    ELSE IF dep \in st.processed THEN st
    ELSE IF ~IsUpdatableKind(GetKind(dep)) THEN st
    ELSE [st EXCEPT
             !.toSync = OMSet(@, dep, BuildDir),
             !.componentVersionMap = MapSet(@, dep, ver)]

\* One dependent component of the closure walk.
HandleDep(st, dep, ver) ==
    IF dep \notin GetComponentsMap THEN st
    ELSE IF dep \in st.processed THEN st
    ELSE LET marked == [st EXCEPT !.processed = @ \cup {dep}]
         IN  IF ~IsUpdatableKind(GetKind(dep)) THEN marked
             ELSE [marked EXCEPT
                      !.toSync = OMSet(@, dep, BuildDir),
                      !.componentVersionMap = MapSet(@, dep, ver)]

RECURSIVE HandleDeps(_, _, _, _)
HandleDeps(st, order, i, ver) ==
    IF i > Len(order) THEN st
    ELSE HandleDeps(HandleDep(st, order[i], ver), order, i + 1, ver)

\* The dependents of a member of a ComponentsItem, after the usage filter.
DependentComponents(key) ==
    IF FilterByComponentUsage
    THEN GetRequiredByComponents(key, -1) \cap GetUsedComponents
    ELSE GetRequiredByComponents(key, -1)

\* The states after one key of toProcess: the key is marked processed and its
\* dependents are walked in one of the orders of Go's map iteration.
ProcessComponentsKey(st, key, ver) ==
    LET marked == [st EXCEPT !.processed = @ \cup {key}]
    IN  {HandleDeps(marked, order, 1, ver) : order \in Orders(DependentComponents(key))}

RECURSIVE ProcessComponentsKeys(_, _, _, _)
ProcessComponentsKeys(sts, toProcess, i, ver) ==
    IF i > Len(toProcess) THEN sts
    ELSE ProcessComponentsKeys(
             UNION {ProcessComponentsKey(st, toProcess[i], ver) : st \in sts},
             toProcess, i + 1, ver)

\* A slip of the final loop of a ComponentsItem: the direct members keep the
\* entry a dependency walk of the same item gave them.
RemoveDirectKept(st, toProcess, i) == st

\* The final loop of a ComponentsItem: its direct members leave toSync and
\* componentVersionMap.
RECURSIVE RemoveDirect(_, _, _)
RemoveDirect(st, toProcess, i) ==
    IF i > Len(toProcess) THEN st
    ELSE RemoveDirect([st EXCEPT !.toSync = OMUnset(@, toProcess[i]),
                                 !.componentVersionMap = MapDelete(@, toProcess[i])],
                      toProcess, i + 1)

\* toProcess of a ComponentsItem: its keys in alphabetical order that are not
\* processed and are of an updatable kind.
ComponentsToProcess(item, done) ==
    SelectSeq(SortKeysAlphabetically(item.members).keys,
              LAMBDA key : key \notin done /\ IsUpdatableKind(GetKind(key)))

HandleComponentsItem(st, item) ==
    LET toProcess == ComponentsToProcess(item, st.processed)
    IN  IF Len(toProcess) = 0 THEN {st}
        ELSE {RemoveDirect(after, toProcess, 1) :
                 after \in ProcessComponentsKeys({st}, toProcess, 1, item.version)}

\* The components of the variables of a VariablesItem, filtered by usage when
\* usedComponents is not empty, sorted and compacted.
VariablesComponents(item) ==
    LET usedComponents == IF FilterByComponentUsage THEN GetUsedComponents ELSE {}
        of(v) == Range(GetVariableComponents(v))
        all == UNION {IF usedComponents = {} THEN of(v) ELSE of(v) \cap usedComponents :
                      v \in Range(item.members.keys)}
    IN  SortStrings(all)

VariablesToProcess(item, done) ==
    SelectSeq(VariablesComponents(item), LAMBDA key : key \notin done)

\* One component of toProcess of a VariablesItem: the component itself, then
\* its dependents (not filtered by usage), in one of the iteration orders.
ProcessVariablesKey(st, c, ver) ==
    IF c \notin GetComponentsMap THEN {st}
    ELSE LET marked == [st EXCEPT !.processed = @ \cup {c}]
             main == IF IsUpdatableKind(GetKind(c))
                     THEN [marked EXCEPT
                              !.toSync = OMSet(@, c, BuildDir),
                              !.componentVersionMap = MapSet(@, c, ver)]
                     ELSE marked
         IN  {HandleDeps(main, order, 1, ver) :
                 order \in Orders(GetRequiredByComponents(c, -1))}

RECURSIVE ProcessVariablesKeys(_, _, _, _)
ProcessVariablesKeys(sts, toProcess, i, ver) ==
    IF i > Len(toProcess) THEN sts
    ELSE ProcessVariablesKeys(
             UNION {ProcessVariablesKey(st, toProcess[i], ver) : st \in sts},
             toProcess, i + 1, ver)

HandleVariablesItem(st, item) ==
    LET toProcess == VariablesToProcess(item, st.processed)
    IN  IF Len(toProcess) = 0 THEN {st}
        ELSE ProcessVariablesKeys({st}, toProcess, 1, item.version)

-----------------------------------------------------------------------------
(* updateComponents: the planning loop *)

\* componentVersionMap[name], the empty string for a missing key.
PropagatedVersion(cvm, name) == IF name \in DOMAIN cvm THEN cvm[name] ELSE <<>>

\* A slip of the skip test: the current version is compared with the new one.
IsIdenticalByNewVersion(baseVersion, currentVersion, propagated) ==
    currentVersion = composeVersion(currentVersion, propagated)

\* The test that skips a component: its base version is the propagated one.
IsIdentical(baseVersion, currentVersion, propagated) == baseVersion = propagated

\* A slip of the planning loop: an empty current version raises no failure.
PlanKeyIgnoresEmpty(acc, key, cvm) ==
    LET currentVersion == metaVersion[key]
        baseVersion == GetBaseVersion(currentVersion)
        propagated == PropagatedVersion(cvm, key)
        seen == [acc EXCEPT !.planned = MapSet(@, key, <<baseVersion, currentVersion>>)]
    IN  IF IsIdentical(baseVersion, currentVersion, propagated)
        THEN [seen EXCEPT !.skipWarnings[key] = @ + 1]
        ELSE [seen EXCEPT
                 !.updateMap = MapSet(@, key,
                     [new |-> composeVersion(currentVersion, propagated),
                      current |-> currentVersion]),
                 !.sortList = Append(@, key)]

\* One iteration of the planning loop over toSync.Keys().
PlanKey(acc, key, cvm) ==
    LET currentVersion == metaVersion[key]
        baseVersion == GetBaseVersion(currentVersion)
        propagated == PropagatedVersion(cvm, key)
        seen == [acc EXCEPT
                    !.planned = MapSet(@, key, <<baseVersion, currentVersion>>),
                    !.stopPropagation = @ \/ currentVersion = <<>>]
    IN  IF IsIdentical(baseVersion, currentVersion, propagated)
        THEN [seen EXCEPT !.skipWarnings[key] = @ + 1]
        ELSE [seen EXCEPT
                 !.updateMap = MapSet(@, key,
                     [new |-> composeVersion(currentVersion, propagated),
                      current |-> currentVersion]),
                 !.sortList = Append(@, key)]

RECURSIVE PlanKeys(_, _, _, _)
PlanKeys(acc, keys, i, cvm) ==
    IF i > Len(keys) THEN acc
    ELSE PlanKeys(PlanKey(acc, keys[i], cvm), keys, i + 1, cvm)

NoWarnings == [c \in Comps |-> 0]

PlanStart ==
    [updateMap |-> <<>>, sortList |-> <<>>, stopPropagation |-> FALSE,
     planned |-> <<>>, skipWarnings |-> NoWarnings]

-----------------------------------------------------------------------------
(* updateComponents: the file a write goes to *)

\* packagePathMap: the tree of every namespace.
packagePathMap ==
    [ns \in Namespaces |-> IF ns = domainNamespace THEN DomainDir ELSE ns]

\* The error of an UpdateVersion that cannot read, encode or write the file.
tplVersionSet == "failed to update component version"

\* getRealMetaPath: the metadata file of a component, its path prefix joined
\* with the path of its name.
getRealMetaPath(pathPrefix, name) == <<pathPrefix, name, "meta", "plasma.yaml">>

\* A slip of UpdateVersion: the file of the domain tree is written whatever
\* the path prefix of the component.
UpdateVersionInDomain(pathPrefix, name, newVer) ==
    [build |-> metaVersion,
     trees |-> [namespaceVersion EXCEPT ![domainNamespace][name] = newVer]]

\* UpdateVersion: the version is stored in the file at getRealMetaPath; the
\* result is the metadata of the build and of the trees of the namespaces.
UpdateVersion(pathPrefix, name, newVer) ==
    [build |-> IF getRealMetaPath(pathPrefix, name) = getRealMetaPath(BuildDir, name)
               THEN [metaVersion EXCEPT ![name] = newVer]
               ELSE metaVersion,
     trees |-> [ns \in DOMAIN namespaceVersion |->
                   IF getRealMetaPath(pathPrefix, name) = getRealMetaPath(packagePathMap[ns], name)
                   THEN [namespaceVersion[ns] EXCEPT ![name] = newVer]
                   ELSE namespaceVersion[ns]]]

-----------------------------------------------------------------------------
(* Functions called on their own *)

NoLookup ==
    [pc |-> "idle", componentsMap |-> <<>>, componentName |-> 0, depth |-> 0,
     loops |-> <<>>, result |-> {}]

NoOrdering == [pc |-> "idle", m |-> NewOrderedMap, orderList |-> <<>>, before |-> NewOrderedMap]

NoBrute ==
    [pc |-> "idle", files |-> <<>>, currentVersion |-> "", originalHash |-> <<"", 0>>,
     commit |-> NoSection]

\* None of the functions is called.
IdleCalls ==
    /\ added = <<>>
    /\ lookup = NoLookup
    /\ ordering = NoOrdering
    /\ brute = NoBrute

\* The items a caller can pass to AddToTimeline: a components item with one
\* component of some tree, or a variables item with one variable.
TimelineItems ==
    {NewTimelineComponentsItem(<<ver>>, <<"commit", date>>, date, name, prefix) :
        ver \in {"v1", "v2"}, date \in 1..MaxDate,
        name \in {CompA, CompB}, prefix \in {"domain", "pkg1"}}
    \cup {NewTimelineVariablesItem(<<ver>>, <<"commit", date>>, date, name) :
            ver \in {"v1", "v2"}, date \in 1..MaxDate, name \in {"var1", "var2"}}

\* s.timeline = AddToTimeline(s.timeline, item)
AddItem(item) ==
    /\ Len(added) < MaxLen
    /\ timeline' = AddToTimeline(timeline, item)
    /\ added' = Append(added, item)
    /\ UNCHANGED <<lookup, ordering, brute, collectVars, goVars, gitVars, invVars, fnVars, inputVars, mapVars, metaVersion, run, pc, err, propVars, updateVars, historyVars>>

\* Length of the longest chain of dependencies a lookup is given.
MaxChain == 130

\* A chain of n names: each but the last has the next one as its only entry.
Chain(n) == [k \in 1..(n - 1) |-> {k + 1}]

\* Maps over three names, of which the third has no entry of its own.
SmallMaps == [1..2 -> SUBSET (1..3)]

\* The calls of lookupDependencies: every small map from every name to a
\* positive depth; the small maps without branching cycles and the long
\* chains to a negative depth too.
LookupCalls ==
    {[pc |-> "call", componentsMap |-> m, componentName |-> name, depth |-> depth,
      loops |-> <<>>, result |-> {}] :
        m \in SmallMaps, name \in 1..3, depth \in 1..3}
    \cup {[pc |-> "call", componentsMap |-> m, componentName |-> name, depth |-> depth,
           loops |-> <<>>, result |-> {}] :
            m \in {f \in SmallMaps :
                      \/ \A k \in 1..2 : \A item \in f[k] : item > k
                      \/ \A k \in 1..2 : Cardinality(f[k]) <= 1},
            name \in 1..3, depth \in {-128, -1}}
    \cup {[pc |-> "call", componentsMap |-> Chain(n), componentName |-> 1,
           depth |-> depth, loops |-> <<>>, result |-> {}] :
            n \in (MaxChain - 2)..MaxChain, depth \in {-128, -1, 1, 127}}

\* The keys of an entry of the map, in the order of Keys().
KeysOf(S) ==
    CHOOSE seq \in [1..Cardinality(S) -> S] :
        \A i, j \in 1..Cardinality(S) : i < j => seq[i] < seq[j]

\* The loop over the entry of a name, handing `depth` to the calls it makes.
LookupLoop(name, depth) ==
    [depth |-> depth, items |-> KeysOf(lookup.componentsMap[name])]

\* lookupDependencies is entered: its loop hands depth 1 to the recursion.
LookupDependencies ==
    /\ lookup.pc = "call"
    /\ lookup' = [lookup EXCEPT
                     !.pc = "loop",
                     !.loops = IF lookup.componentName \in DOMAIN lookup.componentsMap
                               THEN <<LookupLoop(lookup.componentName, 1)>>
                               ELSE <<>>]
    /\ UNCHANGED <<added, ordering, brute, collectVars, goVars, gitVars, invVars, fnVars, inputVars, mapVars, runVars>>

\* One iteration of the innermost loop: the item is added to the result and
\* lookupDependenciesRecursively is called on it; the call returns at once
\* when its depth equals the limit or the item has no entry, else it starts
\* its own loop, which hands on the depth plus one, as an int8.
LookupItem ==
    /\ lookup.pc = "loop"
    /\ lookup.loops # <<>>
    /\ LET n == Len(lookup.loops)
           top == lookup.loops[n]
           item == Head(top.items)
           rest == [lookup.loops EXCEPT ![n].items = Tail(@)]
       IN  /\ top.items # <<>>
           /\ lookup' = [lookup EXCEPT
                 !.result = @ \cup {item},
                 !.loops = IF top.depth = lookup.depth
                              \/ item \notin DOMAIN lookup.componentsMap
                           THEN rest
                           ELSE Append(rest, LookupLoop(item, Int8(top.depth + 1)))]
    /\ UNCHANGED <<added, ordering, brute, collectVars, goVars, gitVars, invVars, fnVars, inputVars, mapVars, runVars>>

\* The innermost loop is over: the call returns.
LookupReturn ==
    /\ lookup.pc = "loop"
    /\ lookup.loops # <<>>
    /\ lookup.loops[Len(lookup.loops)].items = <<>>
    /\ lookup' = [lookup EXCEPT !.loops = SubSeq(@, 1, Len(@) - 1)]
    /\ UNCHANGED <<added, ordering, brute, collectVars, goVars, gitVars, invVars, fnVars, inputVars, mapVars, runVars>>

\* lookupDependencies returns the result.
LookupDone ==
    /\ lookup.pc = "loop"
    /\ lookup.loops = <<>>
    /\ lookup' = [lookup EXCEPT !.pc = "returned"]
    /\ UNCHANGED <<added, ordering, brute, collectVars, goVars, gitVars, invVars, fnVars, inputVars, mapVars, runVars>>

\* The calls of OrderBy: a map of up to three keys in any order with any
\* values, and a list of up to MaxLen names, among them a name the map lacks;
\* a name can occur in the list more than once.
OrderKeys == {"a", "b", "c"}

OrderCalls ==
    UNION {{[pc |-> "call", m |-> [keys |-> keys, dict |-> dict],
             orderList |-> orderList, before |-> [keys |-> keys, dict |-> dict]] :
               keys \in Orders(S), dict \in [S -> BOOLEAN],
               orderList \in UNION {[1..n -> OrderKeys \cup {"d"}] : n \in 0..MaxLen}} :
           S \in SUBSET OrderKeys}

\* m.OrderBy(orderList)
CallOrderBy ==
    /\ ordering.pc = "call"
    /\ ordering' = [ordering EXCEPT !.pc = "returned",
                                    !.m = OrderBy(ordering.m, ordering.orderList)]
    /\ UNCHANGED <<added, lookup, brute, collectVars, goVars, gitVars, invVars, fnVars, inputVars, mapVars, runVars>>

\* The metadata file of the component in the tree of a commit: missing, or
\* one of two contents for each of two versions.
NoFile == [exists |-> FALSE, version |-> "", rev |-> 0]

FileStates ==
    {NoFile} \cup {[exists |-> TRUE, version |-> v, rev |-> r] : v \in {"V", "W"}, r \in 1..2}

\* getFileHashFromCommit: the hash of the blob, which names its content.
getFileHashFromCommit(file) == <<file.version, file.rev>>

\* nil as the commit a search returns.
NoCommit == NoSection

\* A slip of the walk over the items: it stops at the first other blob.
RECURSIVE FollowSameBlob(_, _, _, _, _, _)
FollowSameBlob(files, items, k, fileHash, commitWeNeed, currentVersion) ==
    IF k > Len(items) THEN commitWeNeed
    ELSE IF ~files[items[k]].exists THEN commitWeNeed
    ELSE IF fileHash = getFileHashFromCommit(files[items[k]])
    THEN FollowSameBlob(files, items, k + 1, fileHash, items[k], currentVersion)
    ELSE commitWeNeed

\* The loop of processAllSections over the items of the group it chose.
RECURSIVE FollowItems(_, _, _, _, _, _)
FollowItems(files, items, k, fileHash, commitWeNeed, currentVersion) ==
    IF k > Len(items) THEN commitWeNeed
    ELSE LET file == files[items[k]]
         IN  IF ~file.exists THEN commitWeNeed
             ELSE IF fileHash = getFileHashFromCommit(file)
             THEN FollowItems(files, items, k + 1, fileHash, items[k], currentVersion)
             ELSE IF file.version # currentVersion THEN commitWeNeed
             ELSE FollowItems(files, items, k + 1, getFileHashFromCommit(file),
                              items[k], currentVersion)

\* The loop of processAllSections over the groups, from index i down (the
\* keys are numbered from 1 here).
RECURSIVE SectionsFrom(_, _, _, _, _)
SectionsFrom(commitsGroups, i, files, currentVersion, originalHash) ==
    IF i < 1 THEN NoCommit
    ELSE LET group == commitsGroups.dict[commitsGroups.keys[i]]
             file == files[group.commit]
         IN  IF group.name = headGroupName
             THEN FollowItems(files, group.items, 1, originalHash, group.commit,
                              currentVersion)
             ELSE IF ~file.exists \/ file.version # currentVersion
             THEN SectionsFrom(commitsGroups, i - 1, files, currentVersion, originalHash)
             ELSE FollowItems(files, group.items, 1, getFileHashFromCommit(file),
                              group.commit, currentVersion)

processAllSections(commitsGroups, files, currentVersion, originalHash) ==
    SectionsFrom(commitsGroups, Len(commitsGroups.keys), files, currentVersion,
                 originalHash)

\* processAllSections is called on the groups collectComponentsCommits
\* returned.
BruteForce ==
    /\ cc.pc = "returned"
    /\ brute.pc = "call"
    /\ brute' = [brute EXCEPT
                    !.pc = "returned",
                    !.commit = processAllSections(cc.groups, brute.files,
                                                  brute.currentVersion,
                                                  brute.originalHash)]
    /\ UNCHANGED <<added, lookup, ordering, collectVars, goVars, gitVars, invVars, fnVars, inputVars, mapVars, runVars>>

-----------------------------------------------------------------------------
(* populateTimelineComponents and findComponentsChangeTime: the goroutines *)

\* runtime.NumCPU()
NumCPU == 2

\* Workers of populateTimelineComponents: min(NumCPU, len(packagePathMap)).
maxWorkers ==
    IF NumCPU < Cardinality(DOMAIN packagePathMap)
    THEN NumCPU ELSE Cardinality(DOMAIN packagePathMap)

\* No goroutine holds the mutex.
Unlocked == <<>>

\* The value received from populateTimelineComponents when no worker failed.
NoWorkerError == [worker |-> 0, name |-> "", err |-> NoError]

\* findComponentsChangeTime not called for a namespace. `failed` and `sent`
\* are not variables of the code: they record that a call of processComponent
\* returned an error, and that a worker sent an error on errorChan.
IdleChangeTime ==
    [pc |-> "idle", err |-> NoError, componentsChan |-> <<>>, wg |-> 0,
     errorChan |-> <<>>, errorClosed |-> FALSE, result |-> NoError,
     failed |-> FALSE, sent |-> FALSE,
     worker |-> [k \in 1..NumCPU |-> [pc |-> "idle", component |-> "", list |-> <<>>]]]

\* populateTimelineComponents at its call. `sent` is not a variable of the
\* code: it records that a worker sent an error on errorChan.
WorkersStart ==
    [pc |-> "start", workChan |-> <<>>, wg |-> 0,
     errorChan |-> <<>>, errorClosed |-> FALSE, cancelled |-> FALSE,
     result |-> NoWorkerError, sent |-> FALSE,
     worker |-> [w \in 1..maxWorkers |-> [pc |-> "idle", name |-> ""]]]

\* populateTimelineComponents is not called.
IdleWorkers ==
    /\ ptc = [WorkersStart EXCEPT !.pc = "idle"]
    /\ fct = [ns \in Namespaces |-> IdleChangeTime]
    /\ mx = Unlocked

\* findComponentsChangeTime up to its loop over errorChan: the workers are
\* started, every component is sent on componentsChan, which has room for all
\* of them, and the channel is closed. An empty componentsChan is a closed one.
findComponentsChangeTime(namespaceComponents_) ==
    [IdleChangeTime EXCEPT
        !.pc = "range",
        !.componentsChan = namespaceComponents_.keys,
        !.wg = Len(namespaceComponents_.keys),
        !.worker = [k \in 1..NumCPU |-> [pc |-> "select", component |-> "", list |-> <<>>]]]

\* The goroutines are followed until populateTimelineComponents returns.
Running == ptc.pc = "range"

\* populateTimelineComponents up to its loop over errorChan (ShowProgress is
\* off): the workers are started, the namespaces that hold components are
\* sent on workChan in the order the map yields them, and workChan is closed.
StartWorkers ==
    /\ ptc.pc = "start"
    /\ \E order \in Orders({name \in DOMAIN packagePathMap :
                               Len(componentsMap[name].keys) # 0}) :
          ptc' = [ptc EXCEPT !.pc = "range",
                             !.workChan = order,
                             !.wg = Len(order),
                             !.worker = [w \in 1..maxWorkers |->
                                            [pc |-> "select", name |-> ""]]]
    /\ UNCHANGED <<callVars, collectVars, fct, mx, gitVars, invVars, fnVars, inputVars, mapVars, runVars>>

\* A namespace worker receives a namespace and calls findComponentsChangeTime.
\* The workers run the same code: of those that wait, the first one receives.
TakeWork(w) ==
    /\ Running
    /\ ptc.worker[w].pc = "select"
    /\ \A v \in 1..(w - 1) : ptc.worker[v].pc # "select"
    /\ ptc.workChan # <<>>
    /\ LET name == Head(ptc.workChan)
       IN  /\ ptc' = [ptc EXCEPT !.workChan = Tail(@),
                                 !.worker[w] = [pc |-> "busy", name |-> name]]
           /\ fct' = [fct EXCEPT ![name] = findComponentsChangeTime(componentsMap[name])]
    /\ UNCHANGED <<callVars, collectVars, mx, gitVars, invVars, fnVars, inputVars, mapVars, runVars>>

\* A namespace worker returns because the context is done. (A worker that
\* selects on the closed and empty workChan can only return: it stays at
\* "select" and counts as returned.)
WorkerReturn(w) ==
    /\ Running
    /\ ptc.worker[w].pc = "select"
    /\ ptc.cancelled
    /\ ptc.workChan # <<>>
    /\ ptc' = [ptc EXCEPT !.worker[w].pc = "returned"]
    /\ UNCHANGED <<callVars, collectVars, fct, mx, gitVars, invVars, fnVars, inputVars, mapVars, runVars>>

\* findComponentsChangeTime has returned to the namespace worker: an error is
\* sent if errorChan has room, with cancel() after it, and the worker returns;
\* without an error the worker calls wg.Done() and selects again.
WorkerDone(w) ==
    /\ Running
    /\ ptc.worker[w].pc = "busy"
    /\ LET name == ptc.worker[w].name
       IN  /\ fct[name].pc = "returned"
           /\ ptc' = IF fct[name].result # NoError
                     THEN IF ptc.errorChan = <<>>
                          THEN [ptc EXCEPT
                                   !.errorChan = <<[worker |-> w, name |-> name,
                                                    err |-> fct[name].result]>>,
                                   !.cancelled = TRUE,
                                   !.sent = TRUE,
                                   !.worker[w].pc = "returned"]
                          ELSE [ptc EXCEPT !.worker[w].pc = "returned"]
                     ELSE [ptc EXCEPT !.wg = @ - 1,
                                      !.worker[w] = [pc |-> "select", name |-> ""]]
    /\ UNCHANGED <<callVars, collectVars, fct, mx, gitVars, invVars, fnVars, inputVars, mapVars, runVars>>

\* The goroutine of wg.Wait() in populateTimelineComponents.
CloseWorkerErrors ==
    /\ Running
    /\ ~ptc.errorClosed
    /\ ptc.wg = 0
    /\ ptc' = [ptc EXCEPT !.errorClosed = TRUE]
    /\ UNCHANGED <<callVars, collectVars, fct, mx, gitVars, invVars, fnVars, inputVars, mapVars, runVars>>

\* The loop over errorChan in populateTimelineComponents: the first error
\* received is returned, nil when the channel is closed and empty; the
\* deferred cancel() runs.
ReturnWorkers ==
    /\ ptc.pc = "range"
    /\ ptc.errorChan # <<>> \/ ptc.errorClosed
    /\ ptc' = [ptc EXCEPT
                  !.pc = "returned",
                  !.result = IF ptc.errorChan # <<>> THEN Head(ptc.errorChan)
                             ELSE NoWorkerError,
                  !.errorChan = <<>>,
                  !.cancelled = TRUE]
    /\ UNCHANGED <<callVars, collectVars, fct, mx, gitVars, invVars, fnVars, inputVars, mapVars, runVars>>

\* A component worker receives a component; of the workers that wait, the
\* first one receives.
TakeComponent(name, k) ==
    /\ Running
    /\ fct[name].worker[k].pc = "select"
    /\ \A j \in 1..(k - 1) : fct[name].worker[j].pc # "select"
    /\ fct[name].componentsChan # <<>>
    /\ fct' = [fct EXCEPT ![name].componentsChan = Tail(@),
                          ![name].worker[k] =
                              [pc |-> "process",
                               component |-> Head(fct[name].componentsChan),
                               list |-> <<>>]]
    /\ UNCHANGED <<callVars, collectVars, ptc, mx, gitVars, invVars, fnVars, inputVars, mapVars, runVars>>

\* A component worker returns because the context is done. (A worker that
\* selects on the closed and empty componentsChan can only return: it stays
\* at "select" and counts as returned.)
ComponentWorkerReturn(name, k) ==
    /\ Running
    /\ fct[name].worker[k].pc = "select"
    /\ ptc.cancelled
    /\ fct[name].componentsChan # <<>>
    /\ fct' = [fct EXCEPT ![name].worker[k].pc = "returned"]
    /\ UNCHANGED <<callVars, collectVars, ptc, mx, gitVars, invVars, fnVars, inputVars, mapVars, runVars>>

\* The time.Now() of a call of processComponent by a worker.
WorkerNow == MaxDate + 1

\* processComponent returns an error before it locks the mutex; the worker
\* assigns it to err, the variable of findComponentsChangeTime that every
\* worker and the loop over errorChan share.
FailComponent(name, k) ==
    /\ Running
    /\ fct[name].worker[k].pc = "process"
    /\ LET res == processComponent(fct[name].worker[k].component, WorkerNow)
       IN  /\ res.error # NoError
           /\ fct' = [fct EXCEPT ![name].err = res.error,
                                 ![name].failed = TRUE,
                                 ![name].worker[k].pc = "test"]
    /\ UNCHANGED <<callVars, collectVars, ptc, mx, gitVars, invVars, fnVars, inputVars, mapVars, runVars>>

\* A slip of processComponent: the mutex is taken whoever holds it.
LockTimelineAnyway(name, k) ==
    /\ Running
    /\ fct[name].worker[k].pc = "process"
    /\ processComponent(fct[name].worker[k].component, WorkerNow).error = NoError
    /\ mx' = <<name, k>>
    /\ fct' = [fct EXCEPT ![name].worker[k].pc = "add"]
    /\ UNCHANGED <<callVars, collectVars, ptc, gitVars, invVars, fnVars, inputVars, mapVars, runVars>>

\* processComponent has found the commit of the component: mx.Lock().
LockTimeline(name, k) ==
    /\ Running
    /\ fct[name].worker[k].pc = "process"
    /\ processComponent(fct[name].worker[k].component, WorkerNow).error = NoError
    /\ mx = Unlocked
    /\ mx' = <<name, k>>
    /\ fct' = [fct EXCEPT ![name].worker[k].pc = "add"]
    /\ UNCHANGED <<callVars, collectVars, ptc, gitVars, invVars, fnVars, inputVars, mapVars, runVars>>

\* sync.AddToTimeline(s.timeline, tci) under the mutex: the timeline is read
\* and the list to assign is built.
AddComponent(name, k) ==
    /\ Running
    /\ fct[name].worker[k].pc = "add"
    /\ fct' = [fct EXCEPT
                  ![name].worker[k].pc = "assign",
                  ![name].worker[k].list =
                      AddToTimeline(timeline,
                          processComponent(fct[name].worker[k].component, WorkerNow).item)]
    /\ UNCHANGED <<callVars, collectVars, ptc, mx, gitVars, invVars, fnVars, inputVars, mapVars, runVars>>

\* s.timeline = ... under the mutex, and the deferred mx.Unlock().
AssignTimeline(name, k) ==
    /\ Running
    /\ fct[name].worker[k].pc = "assign"
    /\ timeline' = fct[name].worker[k].list
    /\ mx' = Unlocked
    /\ fct' = [fct EXCEPT ![name].worker[k].pc = "store",
                          ![name].worker[k].list = <<>>]
    /\ UNCHANGED <<callVars, collectVars, ptc, gitVars, invVars, fnVars, inputVars, mapVars, metaVersion, run, pc,
                   err, propVars, updateVars, historyVars>>

\* The nil processComponent returned is assigned to the shared err.
StoreResult(name, k) ==
    /\ Running
    /\ fct[name].worker[k].pc = "store"
    /\ fct' = [fct EXCEPT ![name].err = NoError,
                          ![name].worker[k].pc = "test"]
    /\ UNCHANGED <<callVars, collectVars, ptc, mx, gitVars, invVars, fnVars, inputVars, mapVars, runVars>>

\* The worker reads err: with nil it calls wg.Done() and selects again.
TestResult(name, k) ==
    /\ Running
    /\ fct[name].worker[k].pc = "test"
    /\ fct' = IF fct[name].err # NoError
              THEN [fct EXCEPT ![name].worker[k].pc = "send"]
              ELSE [fct EXCEPT ![name].wg = @ - 1,
                               ![name].worker[k] = [pc |-> "select", component |-> "", list |-> <<>>]]
    /\ UNCHANGED <<callVars, collectVars, ptc, mx, gitVars, invVars, fnVars, inputVars, mapVars, runVars>>

\* The worker sends the value err holds now if errorChan has room, calls
\* wg.Done() and selects again.
SendError(name, k) ==
    /\ Running
    /\ fct[name].worker[k].pc = "send"
    /\ fct' = [fct EXCEPT
                  ![name].errorChan = IF @ = <<>> THEN <<fct[name].err>> ELSE @,
                  ![name].sent = @ \/ (fct[name].errorChan = <<>>
                                        /\ fct[name].err # NoError),
                  ![name].wg = @ - 1,
                  ![name].worker[k] = [pc |-> "select", component |-> "", list |-> <<>>]]
    /\ UNCHANGED <<callVars, collectVars, ptc, mx, gitVars, invVars, fnVars, inputVars, mapVars, runVars>>

\* The goroutine of wg.Wait() in findComponentsChangeTime.
CloseErrors(name) ==
    /\ Running
    /\ fct[name].pc # "idle"
    /\ ~fct[name].errorClosed
    /\ fct[name].wg = 0
    /\ fct' = [fct EXCEPT ![name].errorClosed = TRUE]
    /\ UNCHANGED <<callVars, collectVars, ptc, mx, gitVars, invVars, fnVars, inputVars, mapVars, runVars>>

\* The loop over errorChan in findComponentsChangeTime: a value received is
\* assigned to err; the function returns nil when the channel is closed and
\* empty.
ReceiveError(name) ==
    /\ Running
    /\ fct[name].pc = "range"
    /\ fct[name].errorChan # <<>> \/ fct[name].errorClosed
    /\ fct' = IF fct[name].errorChan # <<>>
              THEN [fct EXCEPT ![name].err = Head(fct[name].errorChan),
                               ![name].errorChan = <<>>,
                               ![name].pc = "test"]
              ELSE [fct EXCEPT ![name].result = NoError,
                               ![name].pc = "returned"]
    /\ UNCHANGED <<callVars, collectVars, ptc, mx, gitVars, invVars, fnVars, inputVars, mapVars, runVars>>

\* The body of the loop reads err.
TestError(name) ==
    /\ Running
    /\ fct[name].pc = "test"
    /\ fct' = [fct EXCEPT ![name].pc = IF fct[name].err # NoError
                                       THEN "return" ELSE "range"]
    /\ UNCHANGED <<callVars, collectVars, ptc, mx, gitVars, invVars, fnVars, inputVars, mapVars, runVars>>

\* return err: the value err holds now.
ReturnError(name) ==
    /\ Running
    /\ fct[name].pc = "return"
    /\ fct' = [fct EXCEPT ![name].result = fct[name].err,
                          ![name].pc = "returned"]
    /\ UNCHANGED <<callVars, collectVars, ptc, mx, gitVars, invVars, fnVars, inputVars, mapVars, runVars>>

-----------------------------------------------------------------------------
(* getComponentsMaps: the goroutines that read the trees *)

\* getComponentsMaps at its call.
CollectStart ==
    [pc |-> "start", workChan |-> <<>>, wg |-> 0, errorClosed |-> FALSE,
     mx |-> 0, componentsMap |-> <<>>,
     worker |-> [w \in 1..maxWorkers |-> [pc |-> "idle", package |-> ""]]]

\* getComponentsMaps is not called.
IdleCollect == gcm = [CollectStart EXCEPT !.pc = "idle"]

\* getComponentsMaps up to its loop over errorChan: the workers are started,
\* every namespace is sent on workChan in the order the map yields them, and
\* workChan is closed.
StartCollect ==
    /\ gcm.pc = "start"
    /\ \E order \in Orders(DOMAIN packagePathMap) :
          gcm' = [gcm EXCEPT !.pc = "range",
                             !.workChan = order,
                             !.wg = Len(order),
                             !.worker = [w \in 1..maxWorkers |->
                                            [pc |-> "select", package |-> ""]]]
    /\ UNCHANGED <<callVars, goVars, gitVars, invVars, fnVars, inputVars, mapVars, runVars>>

\* A worker receives a namespace and reads its tree (the tree is readable);
\* of the workers that wait, the first one receives.
TakeRepo(w) ==
    /\ gcm.pc = "range"
    /\ gcm.worker[w].pc = "select"
    /\ \A v \in 1..(w - 1) : gcm.worker[v].pc # "select"
    /\ gcm.workChan # <<>>
    /\ gcm' = [gcm EXCEPT !.workChan = Tail(@),
                          !.worker[w] = [pc |-> "lock", package |-> Head(gcm.workChan)]]
    /\ UNCHANGED <<callVars, goVars, gitVars, invVars, fnVars, inputVars, mapVars, runVars>>

\* A slip of the worker: the map is written without the mutex.
LockMapsAnyway(w) ==
    /\ gcm.worker[w].pc = "lock"
    /\ gcm' = [gcm EXCEPT !.worker[w].pc = "store"]
    /\ UNCHANGED <<callVars, goVars, gitVars, invVars, fnVars, inputVars, mapVars, runVars>>

\* mx.Lock()
LockMaps(w) ==
    /\ gcm.worker[w].pc = "lock"
    /\ gcm.mx = 0
    /\ gcm' = [gcm EXCEPT !.mx = w, !.worker[w].pc = "store"]
    /\ UNCHANGED <<callVars, goVars, gitVars, invVars, fnVars, inputVars, mapVars, runVars>>

\* componentsMap[package] = components, mx.Unlock() and wg.Done().
StoreMap(w) ==
    /\ gcm.worker[w].pc = "store"
    /\ gcm' = [gcm EXCEPT
                  !.componentsMap = MapSet(@, gcm.worker[w].package,
                                           getComponentsMapFrom(gcm.worker[w].package)),
                  !.mx = 0,
                  !.wg = @ - 1,
                  !.worker[w] = [pc |-> "select", package |-> ""]]
    /\ UNCHANGED <<callVars, goVars, gitVars, invVars, fnVars, inputVars, mapVars, runVars>>

\* The goroutine of wg.Wait() in getComponentsMaps.
CloseCollectErrors ==
    /\ gcm.pc = "range"
    /\ ~gcm.errorClosed
    /\ gcm.wg = 0
    /\ gcm' = [gcm EXCEPT !.errorClosed = TRUE]
    /\ UNCHANGED <<callVars, goVars, gitVars, invVars, fnVars, inputVars, mapVars, runVars>>

\* The loop over errorChan ends; the maps are filtered, the conflicts are
\* resolved, getComponentsMaps returns (its locals are gone) and buildTimeline
\* calls populateTimelineComponents.
ResolveMaps ==
    /\ gcm.pc = "range"
    /\ gcm.errorClosed
    /\ gcm' = [CollectStart EXCEPT !.pc = "returned"]
    /\ componentsMap' =
          CHOOSE result \in
              {IF cm = <<>> THEN <<>> ELSE ResolveComponents(cm, 1) :
                  cm \in {RemoveUnused(gcm.componentsMap)}} : TRUE
    /\ collected' = RemoveUnused(gcm.componentsMap)
    /\ resolveIdx' = Len(BuildKeys) + 1
    /\ ptc' = WorkersStart
    /\ UNCHANGED <<callVars, fct, mx, gitVars, invVars, fnVars, inputVars, runVars>>

-----------------------------------------------------------------------------
(* The inputs of a run *)

\* The semantic includes a source tree may declare (requiring, required);
\* x always includes c.
OptionalEdges == {<<CompA, CompB>>, <<CompB, CompC>>, <<CompA, CompX>>}

IncludedEdges == {<<CompX, CompC>>}

RequiresOf(edges) == [c \in Comps |-> {d \in Comps : <<c, d>> \in edges}]

\* Versions the metadata of the build may hold.
VersionChoices(c) ==
    CASE c = CompA -> {<<"a">>, <<"a", Dash, "c">>, <<"c", Dash, "z">>}
      [] c = CompB -> {<<"b">>, <<"c">>}
      [] c = CompC -> {<<"c">>}
      [] c = CompX -> {<<"x">>}

\* A version of the build that HEAD does not hold.
UncommittedVersion == <<"d">>

\* The changes of variables a run may find: none, or one variable consumed
\* by one component.
VariableChoices ==
    {<<>>} \cup
    {<<[name |-> "var1", version |-> <<"v">>, date |-> d, components |-> <<c>>]>> :
        d \in 1..MaxDate, c \in {CompC, CompX}}

NoRun == [meta |-> <<>>, pc |-> "none"]

NoPlan == [timeline |-> <<>>, sortList |-> <<>>, updateMap |-> <<>>, pc |-> "none"]

\* A project of the domain namespace alone, its maps built.
DomainOnly ==
    /\ namespaceComponents = [ns \in Namespaces |-> IF ns = domainNamespace THEN Comps ELSE {}]
    /\ namespaceVersion = [ns \in Namespaces |->
                              IF ns = domainNamespace THEN metaVersion
                              ELSE [c \in Comps |-> <<>>]]
    /\ componentsMap = getComponentsMaps
    /\ collected = CollectedMaps
    /\ resolveIdx = Len(BuildKeys) + 1

InitRun ==
    /\ DomainOnly
    /\ run = 1
    /\ pc = "start"
    /\ err = NoError
    /\ timeline = <<>>
    /\ idx = 0
    /\ processed = {}
    /\ componentVersionMap = <<>>
    /\ toSync = NewOrderedMap
    /\ handled = <<>>
    /\ updateMap = <<>>
    /\ sortList = <<>>
    /\ updateIdx = 0
    /\ planned = <<>>
    /\ skipWarnings = NoWarnings
    /\ written = <<>>
    /\ firstRun = NoRun
    /\ startVersion = metaVersion
    /\ dryRunPlan = NoPlan

IdleCompose ==
    /\ oldVersion = <<>>
    /\ newVersion = <<>>
    /\ version = NotComputed

\* Propagation over a clean tree: every version of the build is committed.
Init ==
    /\ IdleCompose
    /\ IdleCalls
    /\ IdleCollect
    /\ IdleWorkers
    /\ IdleInventory
    /\ IdleCommits
    /\ requires \in {RequiresOf(e \cup IncludedEdges) : e \in SUBSET OptionalEdges}
    /\ FilterByComponentUsage \in BOOLEAN
    /\ roles = IF FilterByComponentUsage THEN {CompB} ELSE {}
    /\ metaVersion \in {f \in [Comps -> UNION {VersionChoices(c) : c \in Comps}] :
                          \A c \in Comps : f[c] \in VersionChoices(c)}
    /\ headVersion = metaVersion
    /\ anchorDate \in {f \in [Comps -> 1..MaxDate] : f[CompX] = 1}
    /\ changedVariables \in VariableChoices
    /\ AllowOverride = FALSE
    /\ DryRun = FALSE
    /\ writeFails = {}
    /\ InitRun

-----------------------------------------------------------------------------
(* The run: propagate() *)

\* buildTimeline and the head of buildPropagationMap: the component workers
\* finish in some order, then the variables are added; an error ends the run,
\* an empty timeline too; else the maps are empty and the timeline is sorted
\* descending by date.
BuildTimeline ==
    /\ pc = "start"
    /\ \E order \in Orders(NamespaceComponents) :
          LET res == populateTimelineComponents(<<>>, order, 1)
              built == populateTimelineVars(res.timeline, 1)
          IN  IF res.error # NoError
              THEN /\ pc' = "failed"
                   /\ err' = res.error
                   /\ timeline' = res.timeline
              ELSE /\ err' = NoError
                   /\ IF Len(built) = 0
                      THEN pc' = "done" /\ timeline' = built
                      ELSE pc' = "iterate" /\ timeline' \in SortTimeline(built, SortDesc)
    /\ idx' = 1
    /\ processed' = {}
    /\ componentVersionMap' = <<>>
    /\ toSync' = NewOrderedMap
    /\ handled' = <<>>
    /\ UNCHANGED <<callVars, collectVars, goVars, gitVars, invVars, fnVars, inputVars, mapVars, metaVersion, run, updateVars, historyVars>>

\* One iteration of the loop over the timeline.
HandleItem ==
    /\ pc = "iterate"
    /\ idx <= Len(timeline)
    /\ LET item == timeline[idx]
           st == [processed |-> processed,
                  componentVersionMap |-> componentVersionMap,
                  toSync |-> toSync]
       IN  /\ \E after \in IF item.type = ComponentsType
                           THEN HandleComponentsItem(st, item)
                           ELSE HandleVariablesItem(st, item) :
                 /\ processed' = after.processed
                 /\ componentVersionMap' = after.componentVersionMap
                 /\ toSync' = after.toSync
           /\ handled' = Append(handled,
                  [type |-> item.type, version |-> item.version,
                   members |-> Range(item.members.keys),
                   toProcess |-> IF item.type = ComponentsType
                                 THEN Range(ComponentsToProcess(item, processed))
                                 ELSE Range(VariablesToProcess(item, processed)),
                   before |-> processed,
                   entries |-> componentVersionMap])
    /\ idx' = idx + 1
    /\ UNCHANGED <<callVars, collectVars, goVars, gitVars, invVars, fnVars, inputVars, mapVars, metaVersion, run, pc, err, timeline, updateVars, historyVars>>

\* updateComponents up to the write loop: the plan, the deferred failure on
\* an empty version, the return when nothing is to propagate, the sort.
PlanUpdates ==
    /\ pc = "iterate"
    /\ idx > Len(timeline)
    /\ LET plan == PlanKeys(PlanStart, toSync.keys, 1, componentVersionMap)
       IN  /\ planned' = plan.planned
           /\ skipWarnings' = plan.skipWarnings
           /\ updateMap' = plan.updateMap
           /\ sortList' = SortStrings(Range(plan.sortList))
           /\ updateIdx' = 1
           /\ IF plan.stopPropagation
              THEN pc' = "failed" /\ err' = <<"empty version has been detected", "">>
              ELSE /\ err' = NoError
                   /\ pc' = IF DOMAIN plan.updateMap = {} THEN "done" ELSE "update"
    /\ UNCHANGED <<callVars, collectVars, goVars, gitVars, invVars, fnVars, inputVars, mapVars, metaVersion, run, timeline, propVars, written, historyVars>>

\* A slip of the write loop: the error of UpdateVersion is dropped and the
\* loop goes on with the next component.
WriteNextSkipsFailure ==
    /\ pc = "update"
    /\ updateIdx <= Len(sortList)
    /\ LET key == sortList[updateIdx]
       IN  /\ IF DryRun \/ key \in writeFails \/ ~OMHas(toSync, key)
              THEN UNCHANGED <<metaVersion, namespaceVersion, written>>
              ELSE LET after == UpdateVersion(toSync.dict[key], key, updateMap[key].new)
                   IN  /\ metaVersion' = after.build
                       /\ namespaceVersion' = after.trees
                       /\ written' = Append(written, key)
           /\ updateIdx' = updateIdx + 1
           /\ pc' = IF updateIdx = Len(sortList) THEN "done" ELSE "update"
           /\ UNCHANGED err
    /\ UNCHANGED <<callVars, collectVars, goVars, gitVars, invVars, fnVars, requires, roles, headVersion, anchorDate, changedVariables,
                   namespaceComponents, writeFails, AllowOverride, DryRun,
                   FilterByComponentUsage, mapVars, run, timeline, propVars, updateMap,
                   sortList, planned, skipWarnings, historyVars>>

\* A slip of the write loop: DryRun is not consulted.
WriteNextIgnoresDryRun ==
    /\ pc = "update"
    /\ updateIdx <= Len(sortList)
    /\ LET key == sortList[updateIdx]
       IN  IF ~OMHas(toSync, key) \/ key \in writeFails
           THEN /\ pc' = "failed"
                /\ err' = <<tplVersionSet, key>>
                /\ UNCHANGED <<metaVersion, namespaceVersion, written, updateIdx>>
           ELSE /\ LET after == UpdateVersion(toSync.dict[key], key, updateMap[key].new)
                   IN  /\ metaVersion' = after.build
                       /\ namespaceVersion' = after.trees
                       /\ written' = Append(written, key)
                /\ updateIdx' = updateIdx + 1
                /\ pc' = IF updateIdx = Len(sortList) THEN "done" ELSE "update"
                /\ UNCHANGED err
    /\ UNCHANGED <<callVars, collectVars, goVars, gitVars, invVars, fnVars, requires, roles, headVersion, anchorDate, changedVariables,
                   namespaceComponents, writeFails, AllowOverride, DryRun,
                   FilterByComponentUsage, mapVars, run, timeline, propVars, updateMap,
                   sortList, planned, skipWarnings, historyVars>>

\* One iteration of the write loop: UpdateVersion unless DryRun is set. The
\* file written is the metadata under the path prefix of the component that
\* toSync holds.
WriteNext ==
    /\ pc = "update"
    /\ updateIdx <= Len(sortList)
    /\ LET key == sortList[updateIdx]
       IN  IF ~OMHas(toSync, key)
           THEN /\ pc' = "failed"
                /\ err' = <<"unidentified component found during update", key>>
                /\ UNCHANGED <<metaVersion, namespaceVersion, written, updateIdx>>
           ELSE IF ~DryRun /\ key \in writeFails
           THEN /\ pc' = "failed"
                /\ err' = <<tplVersionSet, key>>
                /\ UNCHANGED <<metaVersion, namespaceVersion, written, updateIdx>>
           ELSE /\ IF DryRun
                   THEN UNCHANGED <<metaVersion, namespaceVersion, written>>
                   ELSE LET after == UpdateVersion(toSync.dict[key], key, updateMap[key].new)
                        IN  /\ metaVersion' = after.build
                            /\ namespaceVersion' = after.trees
                            /\ written' = Append(written, key)
                /\ updateIdx' = updateIdx + 1
                /\ pc' = IF updateIdx = Len(sortList) THEN "done" ELSE "update"
                /\ UNCHANGED err
    /\ UNCHANGED <<callVars, collectVars, goVars, gitVars, invVars, fnVars, requires, roles, headVersion, anchorDate, changedVariables,
                   namespaceComponents, writeFails, AllowOverride, DryRun,
                   FilterByComponentUsage, mapVars, run, timeline, propVars, updateMap, sortList,
                   planned, skipWarnings, historyVars>>

Next == BuildTimeline \/ HandleItem \/ PlanUpdates \/ WriteNext

Spec == Init /\ [][Next]_vars

-----------------------------------------------------------------------------
(* Runs over a tree with uncommitted versions, and runs after a run *)

\* The trees of scenarios S1 and S4.
RunsEdges ==
    {{<<CompA, CompB>>, <<CompB, CompC>>} \cup IncludedEdges,
     {<<CompA, CompX>>, <<CompB, CompC>>} \cup IncludedEdges}

\* The versions of HEAD are committed ones; the build holds an uncommitted
\* version for some of b and c; a and x were committed first.
InitRuns ==
    /\ IdleCompose
    /\ IdleCalls
    /\ IdleCollect
    /\ IdleWorkers
    /\ IdleInventory
    /\ IdleCommits
    /\ requires \in {RequiresOf(e) : e \in RunsEdges}
    /\ FilterByComponentUsage = FALSE
    /\ roles = {}
    /\ headVersion \in {f \in [Comps -> UNION {VersionChoices(c) : c \in Comps}] :
                          \A c \in Comps : f[c] \in VersionChoices(c)}
    /\ \E uncommitted \in SUBSET {CompB, CompC} :
          metaVersion = [c \in Comps |-> IF c \in uncommitted THEN UncommittedVersion
                                         ELSE headVersion[c]]
    /\ anchorDate \in {f \in [Comps -> 1..MaxDate] : f[CompX] = 1 /\ f[CompA] = 1}
    /\ changedVariables = <<>>
    /\ AllowOverride \in BOOLEAN
    /\ DryRun \in BOOLEAN
    /\ writeFails = {}
    /\ InitRun

\* The action is invoked again on the build the last run left.
Rerun ==
    /\ pc \in {"done", "failed"}
    /\ run < MaxRuns
    /\ run' = run + 1
    /\ pc' = "start"
    /\ err' = NoError
    /\ timeline' = <<>>
    /\ idx' = 0
    /\ processed' = {}
    /\ componentVersionMap' = <<>>
    /\ toSync' = NewOrderedMap
    /\ handled' = <<>>
    /\ updateMap' = <<>>
    /\ sortList' = <<>>
    /\ updateIdx' = 0
    /\ planned' = <<>>
    /\ skipWarnings' = NoWarnings
    /\ written' = <<>>
    /\ firstRun' = IF run = 1 THEN [meta |-> metaVersion, pc |-> pc] ELSE firstRun
    /\ startVersion' = metaVersion
    /\ UNCHANGED <<callVars, collectVars, goVars, gitVars, invVars, fnVars, inputVars, mapVars, metaVersion, dryRunPlan>>

NextRuns == BuildTimeline \/ HandleItem \/ PlanUpdates \/ WriteNext \/ Rerun

SpecRuns == InitRuns /\ [][NextRuns]_vars

-----------------------------------------------------------------------------
(* getComponentsMaps over a project of two packages and the domain *)

\* The versions the tree of a namespace may hold for a component.
TreeVersions(c) ==
    CASE c = CompB -> {<<"b">>, <<"b", Dash, "z">>, <<"q">>}
      [] c = CompC -> {<<"c">>}
      [] OTHER -> VersionChoices(c)

\* The version the domain holds for a and x.
DomainVersion(c) == CHOOSE v \in VersionChoices(c) : Len(v) = 1

\* The trees of the namespaces: only the domain holds a and x; held[c] gives
\* for b and c the version each namespace holds, the empty version standing
\* for a component the tree does not hold.
TreesOf(held) ==
    [ns \in Namespaces |->
        [c \in Comps |->
            IF c \in DOMAIN held THEN held[c][ns]
            ELSE IF ns = domainNamespace THEN DomainVersion(c) ELSE <<>>]]

\* b and c are each held by some of the namespaces; the build holds for each
\* component the version of one of its copies.
InitMaps ==
    /\ IdleCompose
    /\ IdleCalls
    /\ IdleCollect
    /\ IdleWorkers
    /\ IdleInventory
    /\ IdleCommits
    /\ requires = RequiresOf({<<CompA, CompB>>, <<CompB, CompC>>} \cup IncludedEdges)
    /\ FilterByComponentUsage \in BOOLEAN
    /\ roles \in IF FilterByComponentUsage THEN {{}, {CompB}} ELSE {{}}
    /\ \E heldB \in [Namespaces -> TreeVersions(CompB) \cup {<<>>}],
          heldC \in [Namespaces -> TreeVersions(CompC) \cup {<<>>}] :
          /\ \E ns \in Namespaces : heldB[ns] # <<>>
          /\ \E ns \in Namespaces : heldC[ns] # <<>>
          /\ namespaceVersion = TreesOf((CompB :> heldB) @@ (CompC :> heldC))
          /\ \E nb, nc \in Namespaces :
                /\ heldB[nb] # <<>>
                /\ heldC[nc] # <<>>
                /\ metaVersion = [c \in Comps |->
                                     CASE c = CompB -> heldB[nb]
                                       [] c = CompC -> heldC[nc]
                                       [] OTHER -> DomainVersion(c)]
    /\ namespaceComponents =
          [ns \in Namespaces |-> {c \in Comps : namespaceVersion[ns][c] # <<>>}]
    /\ headVersion = metaVersion
    /\ anchorDate = [c \in Comps |-> 1]
    /\ changedVariables = <<>>
    /\ AllowOverride = FALSE
    /\ DryRun = FALSE
    /\ writeFails = {}
    /\ componentsMap = <<>>
    /\ collected = <<>>
    /\ resolveIdx = 0
    /\ run = 1
    /\ pc = "collect"
    /\ err = NoError
    /\ timeline = <<>>
    /\ idx = 0
    /\ processed = {}
    /\ componentVersionMap = <<>>
    /\ toSync = NewOrderedMap
    /\ handled = <<>>
    /\ updateMap = <<>>
    /\ sortList = <<>>
    /\ updateIdx = 0
    /\ planned = <<>>
    /\ skipWarnings = NoWarnings
    /\ written = <<>>
    /\ firstRun = NoRun
    /\ startVersion = metaVersion
    /\ dryRunPlan = NoPlan

\* The head of getComponentsMaps: the maps of the namespaces, after the
\* usage filter; it returns at once when nothing is used.
CollectComponents ==
    /\ pc = "collect"
    /\ componentsMap' = CollectedMaps
    /\ collected' = CollectedMaps
    /\ resolveIdx' = 1
    /\ pc' = IF CollectedMaps = <<>> THEN "resolved" ELSE "resolve"
    /\ UNCHANGED <<callVars, collectVars, goVars, gitVars, invVars, fnVars, inputVars, metaVersion, run, err, timeline, propVars,
                   updateVars, historyVars>>

\* One iteration of the loop over buildComponents.Keys().
ResolveConflict ==
    /\ pc = "resolve"
    /\ resolveIdx <= Len(BuildKeys)
    /\ componentsMap' = ResolveComponent(componentsMap, BuildKeys[resolveIdx])
    /\ resolveIdx' = resolveIdx + 1
    /\ pc' = IF resolveIdx = Len(BuildKeys) THEN "resolved" ELSE "resolve"
    /\ UNCHANGED <<callVars, collectVars, goVars, gitVars, invVars, fnVars, inputVars, collected, metaVersion, run, err, timeline,
                   propVars, updateVars, historyVars>>

NextMaps == CollectComponents \/ ResolveConflict

SpecMaps == InitMaps /\ [][NextMaps]_vars

-----------------------------------------------------------------------------
(* A run over a project in which packages hold a copy of a domain component *)

\* The versions a package may hold for b: none, the build's, or a compound
\* of the same base.
PackageVersions == {<<>>, <<"b">>, <<"b", Dash, "z">>}

\* Scenario S5: the domain holds every component, b at the version of the
\* build; one or both packages hold b with the same base version.
InitConflict ==
    /\ IdleCompose
    /\ IdleCalls
    /\ IdleCollect
    /\ IdleWorkers
    /\ IdleInventory
    /\ IdleCommits
    /\ requires \in {RequiresOf(e \cup IncludedEdges) : e \in SUBSET OptionalEdges}
    /\ FilterByComponentUsage = FALSE
    /\ roles = {}
    /\ \E va \in VersionChoices(CompA) :
          metaVersion = [c \in Comps |->
                            CASE c = CompA -> va
                              [] c = CompB -> <<"b">>
                              [] OTHER -> DomainVersion(c)]
    /\ \E held \in [Range(Dependencies) -> PackageVersions] :
          /\ \E ns \in Range(Dependencies) : held[ns] # <<>>
          /\ namespaceVersion =
                 [ns \in Namespaces |->
                     IF ns = domainNamespace THEN metaVersion
                     ELSE [c \in Comps |-> IF c = CompB THEN held[ns] ELSE <<>>]]
    /\ namespaceComponents =
          [ns \in Namespaces |-> {c \in Comps : namespaceVersion[ns][c] # <<>>}]
    /\ headVersion = metaVersion
    /\ anchorDate \in {f \in [Comps -> 1..MaxDate] : f[CompX] = 1}
    /\ changedVariables = <<>>
    /\ AllowOverride = FALSE
    /\ DryRun = FALSE
    /\ writeFails = {}
    /\ componentsMap = getComponentsMaps
    /\ collected = CollectedMaps
    /\ resolveIdx = Len(BuildKeys) + 1
    /\ run = 1
    /\ pc = "start"
    /\ err = NoError
    /\ timeline = <<>>
    /\ idx = 0
    /\ processed = {}
    /\ componentVersionMap = <<>>
    /\ toSync = NewOrderedMap
    /\ handled = <<>>
    /\ updateMap = <<>>
    /\ sortList = <<>>
    /\ updateIdx = 0
    /\ planned = <<>>
    /\ skipWarnings = NoWarnings
    /\ written = <<>>
    /\ firstRun = NoRun
    /\ startVersion = metaVersion
    /\ dryRunPlan = NoPlan

NextConflict == BuildTimeline \/ HandleItem \/ PlanUpdates \/ WriteNext

SpecConflict == InitConflict /\ [][NextConflict]_vars

-----------------------------------------------------------------------------
(* A run over a build in which some metadata holds no version *)

\* The metadata of a or b may lack plasma.version (GetMetaVersion gives the
\* empty string); HEAD holds the same metadata.
EmptyChoices(c) ==
    CASE c = CompA -> {<<"a">>, <<>>}
      [] c = CompB -> {<<"b">>, <<>>}
      [] OTHER -> VersionChoices(c)

InitEmpty ==
    /\ IdleCompose
    /\ IdleCalls
    /\ IdleCollect
    /\ IdleWorkers
    /\ IdleInventory
    /\ IdleCommits
    /\ requires \in {RequiresOf(e) : e \in RunsEdges}
    /\ FilterByComponentUsage = FALSE
    /\ roles = {}
    /\ \E va \in EmptyChoices(CompA), vb \in EmptyChoices(CompB) :
          metaVersion = [c \in Comps |->
                            CASE c = CompA -> va
                              [] c = CompB -> vb
                              [] OTHER -> DomainVersion(c)]
    /\ headVersion = metaVersion
    /\ anchorDate \in {f \in [Comps -> 1..MaxDate] : f[CompX] = 1}
    /\ changedVariables = <<>>
    /\ AllowOverride = FALSE
    /\ DryRun \in BOOLEAN
    /\ writeFails = {}
    /\ InitRun

NextEmpty == BuildTimeline \/ HandleItem \/ PlanUpdates \/ WriteNext

SpecEmpty == InitEmpty /\ [][NextEmpty]_vars

-----------------------------------------------------------------------------
(* A run in which UpdateVersion fails for some components *)

\* The metadata of a or of b, or of both, cannot be stored.
InitWrite ==
    /\ IdleCompose
    /\ IdleCalls
    /\ IdleCollect
    /\ IdleWorkers
    /\ IdleInventory
    /\ IdleCommits
    /\ requires \in {RequiresOf(e \cup IncludedEdges) : e \in SUBSET OptionalEdges}
    /\ FilterByComponentUsage = FALSE
    /\ roles = {}
    /\ metaVersion \in {f \in [Comps -> UNION {VersionChoices(c) : c \in Comps}] :
                          \A c \in Comps : f[c] \in VersionChoices(c)}
    /\ headVersion = metaVersion
    /\ anchorDate \in {f \in [Comps -> 1..MaxDate] : f[CompX] = 1}
    /\ changedVariables = <<>>
    /\ AllowOverride = FALSE
    /\ DryRun = FALSE
    /\ writeFails \in SUBSET {CompA, CompB}
    /\ InitRun

NextWrite == BuildTimeline \/ HandleItem \/ PlanUpdates \/ WriteNext

SpecWrite == InitWrite /\ [][NextWrite]_vars

-----------------------------------------------------------------------------
(* A run with --dry-run, then the same run without it *)

InitDry ==
    /\ IdleCompose
    /\ IdleCalls
    /\ IdleCollect
    /\ IdleWorkers
    /\ IdleInventory
    /\ IdleCommits
    /\ requires \in {RequiresOf(e \cup IncludedEdges) : e \in SUBSET OptionalEdges}
    /\ FilterByComponentUsage = FALSE
    /\ roles = {}
    /\ metaVersion \in {f \in [Comps -> UNION {VersionChoices(c) : c \in Comps}] :
                          \A c \in Comps : f[c] \in VersionChoices(c)}
    /\ headVersion = metaVersion
    /\ anchorDate \in {f \in [Comps -> 1..MaxDate] : f[CompX] = 1 /\ f[CompA] = 1}
    /\ changedVariables = <<>>
    /\ AllowOverride = FALSE
    /\ DryRun = TRUE
    /\ writeFails = {}
    /\ InitRun

\* The action is invoked again without --dry-run on the trees the dry run
\* left.
RunForReal ==
    /\ pc \in {"done", "failed"}
    /\ run = 1
    /\ DryRun
    /\ DryRun' = FALSE
    /\ dryRunPlan' = [timeline |-> timeline, sortList |-> sortList,
                      updateMap |-> updateMap, pc |-> pc]
    /\ run' = run + 1
    /\ pc' = "start"
    /\ err' = NoError
    /\ timeline' = <<>>
    /\ idx' = 0
    /\ processed' = {}
    /\ componentVersionMap' = <<>>
    /\ toSync' = NewOrderedMap
    /\ handled' = <<>>
    /\ updateMap' = <<>>
    /\ sortList' = <<>>
    /\ updateIdx' = 0
    /\ planned' = <<>>
    /\ skipWarnings' = NoWarnings
    /\ written' = <<>>
    /\ startVersion' = metaVersion
    /\ UNCHANGED <<callVars, collectVars, goVars, gitVars, invVars, fnVars, requires, roles, headVersion, anchorDate, changedVariables,
                   namespaceComponents, namespaceVersion, writeFails, AllowOverride,
                   FilterByComponentUsage, mapVars, metaVersion, firstRun>>

NextDry == BuildTimeline \/ HandleItem \/ PlanUpdates \/ WriteNext \/ RunForReal

SpecDry == InitDry /\ [][NextDry]_vars

-----------------------------------------------------------------------------
(* composeVersion applied to every pair of bounded strings *)

\* The trees of scenario S1, not used by the harness.
IdleRun ==
    /\ requires = RequiresOf({<<CompA, CompB>>, <<CompB, CompC>>})
    /\ roles = {}
    /\ metaVersion = [c \in Comps |-> CHOOSE v \in VersionChoices(c) : Len(v) = 1]
    /\ headVersion = metaVersion
    /\ anchorDate = [c \in Comps |-> 1]
    /\ changedVariables = <<>>
    /\ AllowOverride = FALSE
    /\ DryRun = FALSE
    /\ FilterByComponentUsage = FALSE
    /\ writeFails = {}
    /\ InitRun

InitCompose ==
    /\ IdleCalls
    /\ IdleWorkers
    /\ IdleCollect
    /\ IdleInventory
    /\ IdleCommits
    /\ oldVersion \in StringsUpTo(MaxLen)
    /\ newVersion \in StringsUpTo(MaxLen)
    /\ version = NotComputed
    /\ IdleRun

ComposeVersion ==
    /\ version = NotComputed
    /\ version' = composeVersion(oldVersion, newVersion)
    /\ UNCHANGED <<callVars, collectVars, goVars, gitVars, invVars, oldVersion, newVersion, inputVars, mapVars, runVars>>

NextCompose == ComposeVersion

SpecCompose == InitCompose /\ [][NextCompose]_vars

-----------------------------------------------------------------------------
(* NewInventory over bounded source trees *)

\* The contents of tasks/dependencies.yaml of a candidate: no task, a task
\* that includes no role, or the inclusion of one or two candidates.
DependencyFiles ==
    {<<>>, <<OtherTask>>}
    \cup {<<n>> : n \in Range(Candidates)}
    \cup {<<n, m>> : n \in {CompA}, m \in {CompB, CompC}}
    \cup {<<CompC, CompB>>}

\* The contents of tasks/main.yaml of a candidate.
MainFiles(c) ==
    CASE c = CompA -> {<<>>, <<CompB>>}
      [] c = CompB -> {<<>>, <<CompA>>}
      [] OTHER -> {<<>>}

\* The metadata of c may be missing or hold no valid YAML.
MetaStates(c) ==
    IF c = CompC THEN {MetaValid, MetaUnparseable, MetaMissing} ELSE {MetaValid}

InitInventory ==
    /\ IdleCompose
    /\ IdleCalls
    /\ IdleCollect
    /\ IdleWorkers
    /\ IdleCommits
    /\ IdleRun
    /\ \E meta \in [Range(Candidates) -> {MetaValid, MetaUnparseable, MetaMissing}],
          dependencies \in [Range(Candidates) -> DependencyFiles],
          main \in [Range(Candidates) -> {<<>>, <<CompA>>, <<CompB>>}] :
          /\ \A c \in Range(Candidates) : meta[c] \in MetaStates(c) /\ main[c] \in MainFiles(c)
          /\ tree = [meta |-> meta, dependencies |-> dependencies, main |-> main]
    /\ inv = NewInventory
    /\ walkIdx = 1
    /\ invPc = "walk"

NextInventory == WalkFile \/ SortGraph

SpecInventory == InitInventory /\ [][NextInventory]_vars

-----------------------------------------------------------------------------
(* collectComponentsCommits over bounded logs *)

\* The logs: up to MaxCommits commits of distinct hashes, the newest first,
\* each made by the bump tool or by a developer.
Logs ==
    UNION {{h \in [1..n -> [hash : CommitHashes, author : {Author, "dev"}, when : 1..n]] :
               /\ \A j \in 1..n : h[j].when = n + 1 - j
               /\ \A j, k \in 1..n : h[j].hash = h[k].hash => j = k} :
           n \in 1..MaxCommits}

InitCommits ==
    /\ IdleCompose
    /\ IdleCalls
    /\ IdleCollect
    /\ IdleWorkers
    /\ IdleInventory
    /\ IdleRun
    /\ history \in Logs
    /\ beforeDate \in {0, 2}
    /\ cc = CommitsStart

NextCommits == IterateCommit \/ ReturnCommits

SpecCommits == InitCommits /\ [][NextCommits]_vars

-----------------------------------------------------------------------------
(* buildTimeline under every schedule of its goroutines *)

\* The domain holds b, and a or not; pkg1 holds nothing, c, or c and a copy
\* of b; pkg2 holds nothing. The build holds an uncommitted version for the components of
\* `failing`, and AllowOverride is off, so processComponent fails for them.
\* b and c have the same version, and the same date when dateB is 1.
InitWorkers ==
    /\ IdleCompose
    /\ IdleCalls
    /\ IdleInventory
    /\ IdleCommits
    /\ requires = RequiresOf({<<CompA, CompB>>, <<CompB, CompC>>})
    /\ roles = {}
    /\ FilterByComponentUsage = FALSE
    /\ \E inDomain \in {{CompB}, {CompA, CompB}}, inPkg1 \in {{}, {CompC}, {CompB, CompC}} :
          /\ namespaceComponents =
                 [ns \in Namespaces |->
                     CASE ns = domainNamespace -> inDomain
                       [] ns = "pkg1" -> inPkg1
                       [] OTHER -> {}]
          /\ \E failing \in SUBSET (inDomain \cup inPkg1) :
                /\ headVersion = [c \in Comps |->
                                     IF c = CompB THEN <<"c">> ELSE DomainVersion(c)]
                /\ metaVersion = [c \in Comps |->
                                     IF c \in failing THEN UncommittedVersion
                                     ELSE headVersion[c]]
    /\ namespaceVersion =
          [ns \in Namespaces |->
              [c \in Comps |-> IF c \in namespaceComponents[ns]
                               THEN metaVersion[c] ELSE <<>>]]
    /\ \E dateB \in 1..MaxDate :
          anchorDate = [c \in Comps |-> IF c = CompB THEN dateB ELSE 1]
    /\ changedVariables = <<>>
    /\ AllowOverride = FALSE
    /\ DryRun = FALSE
    /\ writeFails = {}
    /\ componentsMap = <<>>
    /\ collected = <<>>
    /\ resolveIdx = 0
    /\ run = 1
    /\ pc = "timeline"
    /\ err = NoError
    /\ timeline = <<>>
    /\ idx = 0
    /\ processed = {}
    /\ componentVersionMap = <<>>
    /\ toSync = NewOrderedMap
    /\ handled = <<>>
    /\ updateMap = <<>>
    /\ sortList = <<>>
    /\ updateIdx = 0
    /\ planned = <<>>
    /\ skipWarnings = NoWarnings
    /\ written = <<>>
    /\ firstRun = NoRun
    /\ startVersion = metaVersion
    /\ dryRunPlan = NoPlan
    /\ gcm = CollectStart
    /\ ptc = [WorkersStart EXCEPT !.pc = "idle"]
    /\ fct = [ns \in Namespaces |-> IdleChangeTime]
    /\ mx = Unlocked

NextWorkers ==
    \/ StartCollect
    \/ CloseCollectErrors
    \/ ResolveMaps
    \/ \E w \in 1..maxWorkers : TakeRepo(w) \/ LockMaps(w) \/ StoreMap(w)
    \/ StartWorkers
    \/ CloseWorkerErrors
    \/ ReturnWorkers
    \/ \E w \in 1..maxWorkers : TakeWork(w) \/ WorkerReturn(w) \/ WorkerDone(w)
    \/ \E name \in Namespaces : CloseErrors(name) \/ ReceiveError(name)
                                \/ TestError(name) \/ ReturnError(name)
    \/ \E name \in Namespaces, k \in 1..NumCPU :
          \/ TakeComponent(name, k)
          \/ ComponentWorkerReturn(name, k)
          \/ FailComponent(name, k)
          \/ LockTimeline(name, k)
          \/ AddComponent(name, k)
          \/ AssignTimeline(name, k)
          \/ StoreResult(name, k)
          \/ TestResult(name, k)
          \/ SendError(name, k)

SpecWorkers == InitWorkers /\ [][NextWorkers]_vars

\* The scheduler lets a goroutine that can take a step take one.
SpecWorkersFair == SpecWorkers /\ WF_vars(NextWorkers)

-----------------------------------------------------------------------------
(* AddToTimeline from an empty timeline *)

InitTimeline ==
    /\ IdleCompose
    /\ IdleCalls
    /\ IdleCollect
    /\ IdleWorkers
    /\ IdleInventory
    /\ IdleCommits
    /\ IdleRun

NextTimeline == \E item \in TimelineItems : AddItem(item)

SpecTimeline == InitTimeline /\ [][NextTimeline]_vars

-----------------------------------------------------------------------------
(* lookupDependencies on its own *)

InitLookup ==
    /\ IdleCompose
    /\ IdleCollect
    /\ IdleWorkers
    /\ IdleInventory
    /\ IdleCommits
    /\ IdleRun
    /\ added = <<>>
    /\ lookup \in LookupCalls
    /\ ordering = NoOrdering
    /\ brute = NoBrute

NextLookup == LookupDependencies \/ LookupItem \/ LookupReturn \/ LookupDone

SpecLookup == InitLookup /\ [][NextLookup]_vars

-----------------------------------------------------------------------------
(* OrderBy on its own *)

InitOrderBy ==
    /\ IdleCompose
    /\ IdleCollect
    /\ IdleWorkers
    /\ IdleInventory
    /\ IdleCommits
    /\ IdleRun
    /\ added = <<>>
    /\ lookup = NoLookup
    /\ ordering \in OrderCalls
    /\ brute = NoBrute

NextOrderBy == CallOrderBy

SpecOrderBy == InitOrderBy /\ [][NextOrderBy]_vars

-----------------------------------------------------------------------------
(* processAllSections over the groups of a log *)

\* The build holds the version of HEAD's metadata file, "V", and the blob of
\* that file is the original hash; the older commits hold any file or none.
InitSections ==
    /\ IdleCompose
    /\ IdleCollect
    /\ IdleWorkers
    /\ IdleInventory
    /\ IdleRun
    /\ added = <<>>
    /\ lookup = NoLookup
    /\ ordering = NoOrdering
    /\ history \in Logs
    /\ beforeDate = 0
    /\ cc = CommitsStart
    /\ \E files \in [{history[j].hash : j \in 1..Len(history)} -> FileStates] :
          /\ files[history[1].hash].exists
          /\ files[history[1].hash].version = "V"
          /\ brute = [pc |-> "call", files |-> files, currentVersion |-> "V",
                      originalHash |-> getFileHashFromCommit(files[history[1].hash]),
                      commit |-> NoCommit]

NextSections == IterateCommit \/ ReturnCommits \/ BruteForce

SpecSections == InitSections /\ [][NextSections]_vars

-----------------------------------------------------------------------------
(* Versions and the dependency relation as the claims read them *)

\* The claim's own reading of a version, independent of Split.
HasDash(s) == \E i \in 1..Len(s) : s[i] = Dash

FirstDash(s) == CHOOSE i \in 1..Len(s) : s[i] = Dash /\ \A j \in 1..(i - 1) : s[j] # Dash

\* base: the substring before the first "-" (the whole string without one).
BaseOf(s) == IF HasDash(s) THEN SubSeq(s, 1, FirstDash(s) - 1) ELSE s

\* The components that directly require c.
RequiredByOf(c) == {d \in Comps : c \in requires[d]}

RECURSIVE GrowRequiredBy(_)
GrowRequiredBy(S) ==
    LET next == S \cup UNION {RequiredByOf(c) : c \in S}
    IN  IF next = S THEN S ELSE GrowRequiredBy(next)

\* The transitive requiredBy closure of c: all that depend on c.
Dependents(c) == GrowRequiredBy(RequiredByOf(c))

RECURSIVE GrowRequires(_)
GrowRequires(S) ==
    LET next == S \cup UNION {requires[c] : c \in S}
    IN  IF next = S THEN S ELSE GrowRequires(next)

\* The used-components set: the playbook roles and their requires closure.
Used == GrowRequires(roles)

Updatable(c) == GetKind(c) \in Kinds

\* The dependents of c reached on a path whose inner nodes are all updatable.
RECURSIVE GrowUpdatable(_)
GrowUpdatable(S) ==
    LET next == S \cup UNION {RequiredByOf(c) : c \in {u \in S : Updatable(u)}}
    IN  IF next = S THEN S ELSE GrowUpdatable(next)

DependentsThroughUpdatable(c) == GrowUpdatable(RequiredByOf(c))

\* buildPropagationMap has handled every item of the timeline.
Propagated == pc \in {"update", "done"} \/ (pc = "iterate" /\ idx > Len(timeline))

Keys == DOMAIN componentVersionMap

\* The handled items that are ComponentsItems.
HandledComponents == {i \in 1..Len(handled) : handled[i].type = ComponentsType}

-----------------------------------------------------------------------------
(* Properties of buildPropagationMap *)

\* Item i of the sorted timeline reaches component k: k depends on an
\* updatable member of a ComponentsItem (and is used, under usage filtering),
\* or k consumes a variable of a VariablesItem or depends on a consumer.
ItemReaches(i, k) ==
    LET item == timeline[i]
    IN  IF item.type = ComponentsType
        THEN \E m \in Range(item.members.keys) :
                /\ Updatable(m)
                /\ k \in Dependents(m)
                /\ FilterByComponentUsage => k \in Used
        ELSE \E v \in Range(changedVariables) :
                /\ v.name \in Range(item.members.keys)
                /\ \E c \in Range(v.components) :
                      /\ FilterByComponentUsage /\ Used # {} => c \in Used
                      /\ k = c \/ k \in Dependents(c)

NewestReaching(k) ==
    CHOOSE i \in 1..Len(timeline) :
        ItemReaches(i, k) /\ \A j \in 1..(i - 1) : ~ItemReaches(j, k)

\* C1, first half: an entry componentVersionMap held when an item began (the
\* entries the finished items assigned) is neither changed nor removed by
\* that item or a later one.
C1_EntriesKept ==
    \A i \in 1..Len(handled) : \A k \in DOMAIN handled[i].entries :
        k \in Keys /\ componentVersionMap[k] = handled[i].entries[k]

\* C1, second half: every key of the final componentVersionMap holds the
\* version of the newest timeline item that reached it.
C1_NewestVersion ==
    Propagated =>
        \A k \in Keys :
            /\ \E i \in 1..Len(timeline) : ItemReaches(i, k)
            /\ componentVersionMap[k] = timeline[NewestReaching(k)].version

\* C1: in buildPropagationMap's walk of the timeline sorted descending by
\* date, no later (older) item changes or removes an entry assigned by a
\* finished item, and every final key holds the version of the newest item
\* that reached it.
C1_SingleAssignment == C1_EntriesKept /\ C1_NewestVersion

\* C1 witness: a key two items of different versions reach, holding the
\* version of the newer one after the older one was handled.
C1_Witness ==
    /\ Propagated
    /\ \E k \in Keys : \E i, j \in 1..Len(timeline) :
          /\ i < j
          /\ ItemReaches(i, k) /\ ItemReaches(j, k)
          /\ timeline[i].version # timeline[j].version
          /\ timeline[i].date > timeline[j].date
          /\ componentVersionMap[k] = timeline[i].version

\* What C2 says of one dependent of a member m of a handled item h; under
\* usage filtering (withFilter) only the used dependents are meant.
C2_Dependents(h, m, withFilter) ==
    \A dep \in Dependents(m) :
        ( /\ dep \in GetComponentsMap
          /\ Updatable(dep)
          /\ dep \notin h.before
          /\ dep \notin h.members
          /\ withFilter /\ FilterByComponentUsage => dep \in Used )
        => /\ dep \in Keys
           /\ componentVersionMap[dep] = h.version

C2_Members(withFilter) ==
    \A i \in HandledComponents :
        \A m \in handled[i].toProcess :
            /\ m \notin Keys
            /\ ~OMHas(toSync, m)
            /\ m \notin Range(toSync.keys)
            /\ C2_Dependents(handled[i], m, withFilter)

\* C2 (as claimed): a handled member m (updatable, not yet processed) of a
\* ComponentsItem of version V has no entry in componentVersionMap and
\* toSync, and EVERY component of its requiredBy closure that is in the
\* build inventory, updatable, not yet processed and not a member of the
\* item holds V.
C2_AsClaimed == Propagated /\ changedVariables = <<>> => C2_Members(FALSE)

\* C2 (amended): the same, for the dependents that are in the used-components
\* set when component-usage filtering is enabled.
C2_DirectNotPropagated == C2_Members(TRUE)

\* C2 witness (S1): c was handled as a member, has no entry, and both b and a
\* hold c's version.
C2_Witness ==
    /\ Propagated
    /\ \E i \in HandledComponents :
          /\ CompC \in handled[i].toProcess
          /\ handled[i].members = {CompC}
          /\ CompC \notin Keys
          /\ {CompA, CompB} \subseteq Keys
          /\ componentVersionMap[CompA] = handled[i].version
          /\ componentVersionMap[CompB] = handled[i].version

\* The handled item during which k was marked processed.
ProcessedAt(k) ==
    CHOOSE i \in 1..Len(handled) :
        /\ k \notin handled[i].before
        /\ \A j \in (i + 1)..Len(handled) : k \in handled[j].before

\* C3 (as claimed): when buildPropagationMap returns, every key appears
\* once, processed is a superset of the keys, and no key is a direct member
\* of ANY ComponentsItem of the timeline.
C3_AsClaimed ==
    Propagated /\ changedVariables = <<>> =>
        /\ Keys \subseteq processed
        /\ \A k \in Keys : \A i \in 1..Len(timeline) :
              timeline[i].type = ComponentsType => k \notin Range(timeline[i].members.keys)

\* C3 (amended): every key is held once by toSync, which holds the same keys
\* as componentVersionMap; processed is a superset of the keys; and no key
\* is a direct member of the ComponentsItem that assigned it or of one
\* handled before (a key may be a direct member of an older item).
C3_KeysOnce ==
    /\ Cardinality(Range(toSync.keys)) = Len(toSync.keys)
    /\ Range(toSync.keys) = Keys
    /\ DOMAIN toSync.dict = Keys
    /\ Keys \subseteq processed
    /\ \A k \in Keys : \A i \in HandledComponents :
          i <= ProcessedAt(k) => k \notin handled[i].members

\* C3 witness: a key that is a direct member of an older ComponentsItem.
C3_Witness ==
    /\ Propagated
    /\ \E k \in Keys : \E i \in HandledComponents :
          i > ProcessedAt(k) /\ k \in handled[i].members

\* C9: no component of a kind outside the updatable set is a key of
\* componentVersionMap or toSync, is planned or is written; and an
\* updatable component that reaches a handled member only through a
\* non-updatable component holds the member's version (if it was not
\* processed before, is no member of the item and, under filtering, is used).
C9_OnlyUpdatable ==
    /\ \A k \in Keys \cup Range(toSync.keys) \cup DOMAIN updateMap \cup Range(written) :
          GetKind(k) \in Kinds
    /\ \A i \in HandledComponents : \A m \in handled[i].toProcess :
          \A dep \in Dependents(m) \ DependentsThroughUpdatable(m) :
              ( /\ Updatable(dep)
                /\ dep \notin handled[i].before
                /\ dep \notin handled[i].members
                /\ FilterByComponentUsage => dep \in Used )
              => dep \in Keys /\ componentVersionMap[dep] = handled[i].version

\* C9 witness (S4): x was walked and has no entry and is not written, a is
\* reached from c only through x and is written with c's version.
C9_Witness ==
    /\ pc = "done"
    /\ CompX \in processed
    /\ CompX \notin Keys
    /\ \E i \in HandledComponents :
          /\ CompC \in handled[i].toProcess
          /\ CompA \in Dependents(CompC) \ DependentsThroughUpdatable(CompC)
          /\ CompA \in Keys
          /\ componentVersionMap[CompA] = handled[i].version
    /\ CompA \in Range(written)

-----------------------------------------------------------------------------
(* Properties of updateComponents *)

\* updateComponents has planned.
Planned == pc \in {"update", "done", "failed"} /\ updateIdx > 0

-----------------------------------------------------------------------------
(* Properties of composeVersion *)

\* C4 (as claimed): compose(x, y) is y when y contains "-" and
\* base(x) + "-" + y otherwise, and base(compose(x, y)) = base(x) for ALL x, y.
C4_AsClaimed ==
    version # NotComputed =>
        /\ HasDash(newVersion) => version = newVersion
        /\ ~HasDash(newVersion) => version = BaseOf(oldVersion) \o <<Dash>> \o newVersion
        /\ BaseOf(version) = BaseOf(oldVersion)

\* C4 (amended): compose(x, y) is y when y contains "-"; otherwise it is
\* base(x) + "-" + y, and then base(compose(x, y)) = base(x). With "-" in y
\* the result's base is base(y).
C4_ComposeLaws ==
    version # NotComputed =>
        /\ HasDash(newVersion) =>
              /\ version = newVersion
              /\ BaseOf(version) = BaseOf(newVersion)
        /\ ~HasDash(newVersion) =>
              /\ version = BaseOf(oldVersion) \o <<Dash>> \o newVersion
              /\ BaseOf(version) = BaseOf(oldVersion)
              /\ GetBaseVersion(version) = GetBaseVersion(oldVersion)

\* C4 witness: a compound old version composed with a plain new one (the old
\* propagated half is discarded).
C4_Witness ==
    /\ version # NotComputed
    /\ HasDash(oldVersion) /\ Len(oldVersion) = 3 /\ oldVersion[2] = Dash
    /\ ~HasDash(newVersion) /\ Len(newVersion) = 1
    /\ version = <<oldVersion[1], Dash, newVersion[1]>>

-----------------------------------------------------------------------------
(* Properties of runs over uncommitted versions and of repeated runs *)

VersionMismatch == "doesn't match HEAD commit"

\* The components whose build version differed from HEAD's when the run began.
Mismatching == {c \in NamespaceComponents : startVersion[c] # headVersion[c]}

\* The timeline items that hold component c.
ItemsOf(c) ==
    {i \in 1..Len(timeline) :
        timeline[i].type = ComponentsType /\ c \in Range(timeline[i].members.keys)}

\* What C7 says of a run that found a mismatch with AllowOverride off; the
\* error names every mismatching component (all) or one of them.
C7_Stopped(named) ==
    /\ pc = "failed"
    /\ err[1] = VersionMismatch
    /\ named
    /\ \A c \in Mismatching : ItemsOf(c) = {}
    /\ written = <<>>
    /\ metaVersion = startVersion

HeadDate == MaxDate

\* What C8 says of a run with AllowOverride on: it is not stopped by a
\* mismatch, and every mismatching component has an item of the build's
\* version with the given commit; at(d) says what its date d is.
C8_Items(commit, at(_)) ==
    /\ err[1] # VersionMismatch
    /\ \A c \in Mismatching :
          /\ ItemsOf(c) # {}
          /\ \A i \in ItemsOf(c) :
                /\ timeline[i].version = startVersion[c]
                /\ timeline[i].commit = commit
                /\ at(timeline[i].date)

\* C8 (as claimed): with AllowOverride on, a mismatching component is added
\* to the timeline with its build version and the commit and date of HEAD.
C8_AsClaimed ==
    (pc # "start" /\ AllowOverride) =>
        C8_Items(CommitHash(HeadDate), LAMBDA d : d = HeadDate)

\* C8 (amended): with AllowOverride on, a mismatching component is added to
\* the timeline with its build version, the marker "override" for the commit
\* and the time of the run (later than every commit) for the date, and the
\* run is not stopped by the mismatch.
C8_OverrideItem ==
    (pc # "start" /\ AllowOverride) =>
        C8_Items(OverrideHash, LAMBDA d : d > HeadDate)

\* C8 witness: c differs from HEAD, the run went on to propagate c's build
\* version from the item of the override, the newest of the timeline.
C8_Witness ==
    /\ AllowOverride /\ run = 1 /\ pc = "done"
    /\ Mismatching = {CompC}
    /\ timeline[1].commit = OverrideHash
    /\ timeline[1].version = UncommittedVersion
    /\ CompB \in Keys /\ componentVersionMap[CompB] = UncommittedVersion
    /\ CompB \in Range(written)

\* A second run, started after a first run that ended without an error.
SecondRun == run = 2 /\ firstRun.pc = "done"

-----------------------------------------------------------------------------
(* Properties of getComponentsMaps *)

\* The namespaces that held c before the conflicts were resolved, those that
\* hold it now, and those whose base version of c is the build's version.
Holders(c) == {ns \in DOMAIN collected : OMHas(collected[ns], c)}

Retaining(c) == {ns \in DOMAIN componentsMap : OMHas(componentsMap[ns], c)}

Matching(c) == {ns \in Holders(c) : BaseOf(namespaceVersion[ns][c]) = metaVersion[c]}

Priority(ns) == CHOOSE i \in 1..Len(priorityOrder) : priorityOrder[i] = ns

\* C6: after the conflict resolution, a component of the build that two or
\* more namespaces held is in no namespace whose base version differs from
\* the build's version, and, when some namespace matches, in exactly one
\* namespace: the matching one of highest priority in [pkg1, pkg2, domain].
C6_OneRetains ==
    pc = "resolved" /\ collected # <<>> =>
        \A c \in GetComponentsMap :
            Cardinality(Holders(c)) >= 2 =>
                /\ Retaining(c) \subseteq Matching(c)
                /\ Matching(c) # {} =>
                      \E ns \in Matching(c) :
                          /\ Retaining(c) = {ns}
                          /\ \A o \in Matching(c) : Priority(o) <= Priority(ns)

-----------------------------------------------------------------------------
(* Properties of the files a run writes *)

\* A component held by several namespaces that only the domain retains.
DomainWins(c) ==
    /\ Cardinality(Holders(c)) >= 2
    /\ Retaining(c) = {domainNamespace}

\* The write loop has just passed a component to UpdateVersion.
Wrote == Len(written') > Len(written)

\* C11 as claimed: in the conflict scenario the writes go to the domain tree
\* and no metadata of the build is modified.
C11_AsClaimed ==
    (\E c \in Comps : DomainWins(c)) =>
        /\ metaVersion = startVersion
        /\ \A k \in Range(written) :
              getRealMetaPath(toSync.dict[k], k) = getRealMetaPath(DomainDir, k)

\* C11: in the conflict scenario where the domain copy wins, every write of
\* the propagation stores the new version in the metadata of the component
\* under the build directory and in no other file; the trees of the domain
\* and of the packages are not modified.
C11_WritesBuild ==
    [][(Wrote /\ \E c \in Comps : DomainWins(c)) =>
          LET key == written'[Len(written')]
          IN  /\ getRealMetaPath(toSync.dict[key], key) = getRealMetaPath(BuildDir, key)
              /\ metaVersion' = [metaVersion EXCEPT ![key] = updateMap[key].new]
              /\ namespaceVersion' = namespaceVersion]_vars

\* C11 witness (S5): pkg2 and the domain held b at base b, the domain alone
\* retains it; c changed last, and the run has written b-c for b into the
\* build while the domain tree still holds b.
C11_Witness ==
    /\ pc = "done"
    /\ Holders(CompB) = {"pkg2", domainNamespace}
    /\ DomainWins(CompB)
    /\ CompB \in Range(written)
    /\ metaVersion[CompB] = <<"b", Dash, "c">>
    /\ namespaceVersion[domainNamespace][CompB] = <<"b">>
    /\ namespaceVersion["pkg2"][CompB] = <<"b">>

-----------------------------------------------------------------------------
(* Properties of the failures of updateComponents *)

EmptyVersionError == <<"empty version has been detected", "">>

\* The components of toSync whose metadata holds no version.
EmptyInToSync == {k \in Range(toSync.keys) : metaVersion[k] = <<>>}

\* updateComponents has been entered and has left its planning loop.
PlanningOver == pc \in {"update", "done", "failed"} /\ updateIdx > 0

WriteFailed == pc = "failed" /\ err[1] = tplVersionSet

\* Position of a component in sortList.
PlanIndex(k) == CHOOSE i \in 1..Len(sortList) : sortList[i] = k

\* C13: the planned updates are written one at a time in ascending
\* alphabetical order of the component names; a run with a write that fails
\* does not complete: it returns the error of that write, every planned
\* component ordered before the failing one holds its new version and every
\* planned component ordered after it holds the version it had.
C13_SerialWrites ==
    PlanningOver /\ ~DryRun =>
        /\ \A i, j \in 1..Len(sortList) : i < j => Rank(sortList[i]) < Rank(sortList[j])
        /\ written = SubSeq(sortList, 1, Len(written))
        /\ pc = "done" => Range(sortList) \cap writeFails = {}
        /\ WriteFailed =>
              LET at == PlanIndex(err[2])
              IN  /\ err[2] \in writeFails
                  /\ Len(written) = at - 1
                  /\ \A j \in 1..(at - 1) :
                        metaVersion[sortList[j]] = updateMap[sortList[j]].new
                  /\ \A j \in at..Len(sortList) :
                        metaVersion[sortList[j]] = startVersion[sortList[j]]

\* C13 witness (S1): a and b are planned in this order, the write of b
\* failed after a-c had been stored for a.
C13_Witness ==
    /\ WriteFailed
    /\ sortList = <<CompA, CompB>>
    /\ err[2] = CompB
    /\ startVersion[CompA] = <<"a">>
    /\ metaVersion[CompA] = <<"a", Dash, "c">>
    /\ metaVersion[CompB] = <<"b">>

-----------------------------------------------------------------------------
(* Properties of --dry-run *)

\* The run without DryRun that follows a dry run has planned its updates.
PlannedForReal == run = 2 /\ ~DryRun /\ PlanningOver /\ dryRunPlan # NoPlan

-----------------------------------------------------------------------------
(* Properties of the Inventory *)

\* NewInventory has returned without an error.
InventoryReady == invPc = "ready"

\* The components of the Inventory.
InventoryComponents == Range(inv.componentsMap.keys)

\* b semantically requires a: a is included by tasks/dependencies.yaml of b.
SemanticallyRequires(b, a) ==
    /\ b \in DOMAIN inv.requires
    /\ a \in Range(inv.requires[b].keys)

\* Position of an element in a sequence that holds it once.
IndexIn(seq, x) == CHOOSE k \in 1..Len(seq) : seq[k] = x

\* C15: after NewInventory succeeds, platform is the first element of the
\* topological order, and a component of componentsMap comes before every
\* other component of componentsMap that semantically requires it in the key
\* order of componentsMap.
C15_RequiredFirst ==
    InventoryReady =>
        /\ inv.topOrder # <<>>
        /\ inv.topOrder[1] = rootPlatform
        /\ \A a, b \in InventoryComponents :
              a # b /\ SemanticallyRequires(b, a) =>
                  IndexIn(inv.componentsMap.keys, a) < IndexIn(inv.componentsMap.keys, b)

\* The elements of the order GetComponentsOrder returns.
Ordered == Range(inv.topOrder)

\* C16 as claimed: a component that requires another one has the smaller
\* index of the two in the sorted order.
C16_AsClaimed ==
    InventoryReady =>
        \A u, v \in DOMAIN inv.requiredBy \cup DOMAIN inv.requires :
            SemanticallyRequires(v, u) =>
                /\ {u, v} \subseteq Ordered
                /\ IndexIn(inv.topOrder, v) < IndexIn(inv.topOrder, u)

\* C16: after NewInventory succeeds, the order GetComponentsOrder returns
\* holds every name once; for every pair (u, v) of its elements with u in
\* requires[v], index(u) < index(v): the required one comes first; and the
\* order holds every v that requires one of its elements.
C16_RequiredBeforeRequiring ==
    InventoryReady =>
        /\ \A j, k \in 1..Len(inv.topOrder) : inv.topOrder[j] = inv.topOrder[k] => j = k
        /\ \A u \in Ordered : \A v \in DOMAIN inv.requires :
              SemanticallyRequires(v, u) =>
                  /\ v \in Ordered
                  /\ IndexIn(inv.topOrder, u) < IndexIn(inv.topOrder, v)

\* C16 witness (the tree of S1): a requires b, b requires c, and the order is
\* platform, c, b, a.
C16_Witness ==
    /\ InventoryReady
    /\ SemanticallyRequires(CompA, CompB)
    /\ SemanticallyRequires(CompB, CompC)
    /\ inv.topOrder = <<rootPlatform, CompC, CompB, CompA>>

\* The names that the semantic requires relation reaches from the names of S.
RECURSIVE RequiresClosure(_)
RequiresClosure(S) ==
    LET next == S \cup UNION {Range(inv.requires[n].keys) : n \in S \cap DOMAIN inv.requires}
    IN  IF next = S THEN S ELSE RequiresClosure(next)

\* n is on a cycle of the semantic requires relation.
OnCycle(n) ==
    /\ n \in DOMAIN inv.requires
    /\ n \in RequiresClosure(Range(inv.requires[n].keys))

\* buildComponentsGraph has returned.
InventoryBuilt == invPc \in {"ready", "failed"}

\* C17: when the semantic requires relation of the tree contains a cycle,
\* NewInventory returns an error, also when no component of the cycle
\* requires a component outside the cycle.
C17_CyclesRejected ==
    InventoryBuilt /\ (\E n \in DOMAIN inv.requires : OnCycle(n)) => invPc = "failed"

\* b is a key of m[a]: m is requires, requiredBy or one of the build maps.
Holds(m, a, b) == a \in DOMAIN m /\ b \in Range(m[a].keys)

\* The names the dependency maps mention.
Names ==
    LET over(m) == DOMAIN m \cup UNION {Range(m[k].keys) : k \in DOMAIN m}
    IN  over(inv.requires) \cup over(inv.requiredBy)
        \cup over(inv.buildRequires) \cup over(inv.buildRequiredBy)

\* C18 as claimed: with the sentinel inserted, requires and requiredBy are
\* mutually inverse, and so are buildRequires and buildRequiredBy.
C18_AsClaimed ==
    InventoryBuilt =>
        \A a, b \in Names :
            /\ Holds(inv.requires, b, a) <=> Holds(inv.requiredBy, a, b)
            /\ Holds(inv.buildRequires, b, a) <=> Holds(inv.buildRequiredBy, a, b)

\* C18: after the construction of the Inventory, for every b and every a
\* other than platform, a is in requires[b] if and only if b is in
\* requiredBy[a]; for every a and b, a is in buildRequires[b] if and only if
\* b is in buildRequiredBy[a]; the sentinel is inserted in requiredBy alone:
\* requiredBy[platform] holds the required names that have no requires entry,
\* and none of them has platform in requires.
C18_InverseButSentinel ==
    /\ \A a, b \in Names :
          /\ a # rootPlatform =>
                (Holds(inv.requires, b, a) <=> Holds(inv.requiredBy, a, b))
          /\ Holds(inv.buildRequires, b, a) <=> Holds(inv.buildRequiredBy, a, b)
    /\ InventoryBuilt =>
          /\ rootPlatform \in DOMAIN inv.requiredBy
          /\ Range(inv.requiredBy[rootPlatform].keys) =
                 {a \in DOMAIN inv.requiredBy \ {rootPlatform} : a \notin DOMAIN inv.requires}
          /\ \A b \in Range(inv.requiredBy[rootPlatform].keys) :
                ~Holds(inv.requires, b, rootPlatform)

\* C18 witness (the tree of S1, a also including b in tasks/main.yaml): the
\* maps are built and hold each inclusion in both directions, and c, which
\* requires nothing, is under the sentinel without requiring it.
C18_Witness ==
    /\ InventoryBuilt
    /\ Holds(inv.requires, CompA, CompB) /\ Holds(inv.requiredBy, CompB, CompA)
    /\ Holds(inv.requires, CompB, CompC) /\ Holds(inv.requiredBy, CompC, CompB)
    /\ Holds(inv.buildRequires, CompA, CompB) /\ Holds(inv.buildRequiredBy, CompB, CompA)
    /\ Holds(inv.requiredBy, rootPlatform, CompC)
    /\ CompC \notin DOMAIN inv.requires

\* The walk over the tree has visited every file.
WalkOver == invPc # "idle" /\ walkIdx > Len(WalkFiles)

\* C19 as claimed: the components of componentsMap are the candidates whose
\* metadata file exists and parses.
C19_AsClaimed ==
    WalkOver =>
        InventoryComponents = {c \in Range(Candidates) : tree.meta[c] = MetaValid}

\* C19: every component of componentsMap has its metadata file
\* <prefix>/<layer>/<kind>/<role>/meta/plasma.yaml; a candidate whose metadata
\* file is missing is dropped without an error, its task files unread; a
\* candidate whose metadata file exists is kept whether or not the file parses.
C19_ExistingMetadata ==
    /\ invPc = "walk" => InventoryComponents \subseteq
                             {c \in Range(Candidates) : tree.meta[c] # MetaMissing}
    /\ WalkOver =>
          /\ InventoryComponents = {c \in Range(Candidates) : tree.meta[c] # MetaMissing}
          /\ \A c \in Range(Candidates) :
                tree.meta[c] = MetaMissing =>
                    c \notin DOMAIN inv.requires \cup DOMAIN inv.buildRequires
          /\ \A c \in InventoryComponents : inv.componentsMap.dict[c] = BuildDir

\* C19 witness: the metadata of c holds no valid YAML, b includes c, and the
\* Inventory is built with c among its components.
C19_Witness ==
    /\ InventoryReady
    /\ tree.meta[CompC] = MetaUnparseable
    /\ CompC \in InventoryComponents
    /\ SemanticallyRequires(CompB, CompC)
    /\ inv.topOrder = <<rootPlatform, CompC, CompB>>

-----------------------------------------------------------------------------
(* C20: a repeated short hash and the result of collectComponentsCommits *)

\* The commits of the log the iteration reaches: those before the first
\* commit older than beforeDate.
ScanWindow ==
    {j \in 1..Len(history) : \A k \in 1..j : history[k].when >= beforeDate}

\* Two commits of the scan window have the same first 13 characters.
DuplicateInWindow ==
    \E j, k \in ScanWindow :
        j # k /\ ShortHash(history[j].hash) = ShortHash(history[k].hash)

CommitsReturned == cc.pc = "returned"

\* C20: when two commits of the scan window share their 13-character
\* prefix, collectComponentsCommits returns an error.
C20_DuplicateFails ==
    (CommitsReturned /\ DuplicateInWindow) => cc.err # NoIterError


-----------------------------------------------------------------------------
(* Properties of the goroutines of populateTimelineComponents *)

\* A namespace worker has returned, or can only return.
WorkerReturned(w) ==
    \/ ptc.worker[w].pc = "returned"
    \/ ptc.worker[w].pc = "select" /\ ptc.workChan = <<>>

\* A component worker has returned, can only return, or was never started.
ComponentWorkerReturned(name, k) ==
    \/ fct[name].worker[k].pc \in {"idle", "returned"}
    \/ fct[name].worker[k].pc = "select" /\ fct[name].componentsChan = <<>>

WorkersReturned == ptc.pc = "returned"

WorkersFailed == WorkersReturned /\ ptc.result # NoWorkerError

\* C21: when populateTimelineComponents returns the error of a worker, every
\* namespace worker and every component worker has returned.
C21_ReturnsAfterWorkers ==
    WorkersFailed =>
        /\ \A w \in 1..maxWorkers : WorkerReturned(w)
        /\ \A name \in Namespaces, k \in 1..NumCPU : ComponentWorkerReturned(name, k)

\* The goroutines inside AddToTimeline.
Adding ==
    {nk \in Namespaces \X (1..NumCPU) : fct[nk[1]].worker[nk[2]].pc \in {"add", "assign"}}

\* The goroutines that write the componentsMap of getComponentsMaps.
Storing == {w \in 1..maxWorkers : gcm.worker[w].pc = "store"}

\* The pairs (namespace, component) left after the conflicts are resolved.
RemainingPairs ==
    {nc \in (DOMAIN componentsMap) \X Comps : OMHas(componentsMap[nc[1]], nc[2])}

NoWorkerFails ==
    \A nc \in RemainingPairs : processComponent(nc[2], WorkerNow).error = NoError

\* The ComponentsItems of the timeline that hold a component.
ItemsHolding(c) ==
    {i \in 1..Len(timeline) :
        timeline[i].type = ComponentsType /\ OMHas(timeline[i].members, c)}

\* C22: at most one goroutine at a time is inside AddToTimeline, and at most
\* one writes the componentsMap of getComponentsMaps; when no worker fails,
\* populateTimelineComponents returns nil and every remaining pair is a member
\* of exactly one ComponentsItem of the timeline.
C22_NoInsertionLost ==
    /\ Cardinality(Adding) <= 1
    /\ Cardinality(Storing) <= 1
    /\ (WorkersReturned /\ NoWorkerFails) =>
          /\ ptc.result = NoWorkerError
          /\ \A nc \in RemainingPairs : Cardinality(ItemsHolding(nc[2])) = 1

\* Two namespaces and three components, none failing; b and c were merged
\* into one item.
C22_Witness ==
    /\ WorkersReturned
    /\ NoWorkerFails
    /\ Cardinality(RemainingPairs) = 3
    /\ Len(timeline) = 2
    /\ \E i \in 1..Len(timeline) : Len(timeline[i].members.keys) = 2

\* C29: when processComponent returned an error for a component of a
\* namespace, findComponentsChangeTime returns an error for that namespace.
C29_ErrorNotLost ==
    \A name \in Namespaces :
        (fct[name].pc = "returned" /\ fct[name].failed) => fct[name].result # NoError

\* A namespace worker or a component worker sent an error on its errorChan.
ErrorSent == ptc.sent \/ \E name \in Namespaces : fct[name].sent

NilReturned == WorkersReturned /\ ptc.result = NoWorkerError

\* C30: under fair scheduling populateTimelineComponents returns, and it
\* returns nil only if no worker sent an error.
C30_ReturnsAndNilMeansNoError ==
    /\ <>WorkersReturned
    /\ [](NilReturned => ~ErrorSent)

\* populateTimelineComponents returns under fair scheduling.
AlwaysReturns == <>WorkersReturned

\* populateTimelineComponents returns nil only if no namespace worker sent
\* an error.
NilMeansNoNamespaceError == NilReturned => ~ptc.sent

-----------------------------------------------------------------------------
(* Properties of the order of insertion into the timeline *)

PropagationStart ==
    [processed |-> {}, componentVersionMap |-> <<>>, toSync |-> NewOrderedMap]

\* The maps buildPropagationMap can end with on a sorted timeline.
RECURSIVE PropagateItems(_, _, _)
PropagateItems(sts, list, i) ==
    IF i > Len(list) THEN sts
    ELSE PropagateItems(
             UNION {IF list[i].type = ComponentsType
                    THEN HandleComponentsItem(st, list[i])
                    ELSE HandleVariablesItem(st, list[i]) : st \in sts},
             list, i + 1)

\* The timeline when the workers insert their results in alphabetical order
\* of the components and the sort keeps the items of equal rank in place.
ReferenceTimeline ==
    LET built == populateTimelineVars(
                     populateTimelineComponents(<<>>, SortStrings(NamespaceComponents), 1).timeline,
                     1)
    IN  CHOOSE sorted \in SortTimeline(built, SortDesc) :
            \A i, j \in 1..Len(built) :
                (i < j /\ ~TimelineLess(built[j], built[i], SortDesc)) =>
                    \E p, q \in 1..Len(sorted) :
                        p < q /\ sorted[p] = built[i] /\ sorted[q] = built[j]

PropagationOver == pc = "iterate" /\ idx > Len(timeline)

\* C23: whatever the order in which the results of the workers were inserted,
\* buildPropagationMap ends with the componentVersionMap and the toSync keys
\* of the insertion in alphabetical order.
C23_OrderIndependent ==
    PropagationOver =>
        \A fin \in PropagateItems({PropagationStart}, ReferenceTimeline, 1) :
            /\ fin.componentVersionMap = componentVersionMap
            /\ DOMAIN fin.toSync.dict = DOMAIN toSync.dict

-----------------------------------------------------------------------------
(* Properties of AddToTimeline *)

SameSlot(x, y) == x.type = y.type /\ x.version = y.version /\ x.date = y.date

\* The added items that fall into the slot of x, as positions of `added`.
AddedTo(x) == {k \in 1..Len(added) : SameSlot(added[k], x)}

\* C24: after any sequence of AddToTimeline calls from the empty timeline no
\* two items share variant, version and date; the keys of an item are the
\* keys of all the added items of its variant, version and date; and a key
\* holds the member of the first added item that had it.
C24_MergedTimeline ==
    /\ \A i, j \in 1..Len(timeline) : SameSlot(timeline[i], timeline[j]) => i = j
    /\ \A i \in 1..Len(timeline) :
          LET x == timeline[i]
          IN  /\ Range(x.members.keys) =
                     UNION {Range(added[k].members.keys) : k \in AddedTo(x)}
              /\ DOMAIN x.members.dict = Range(x.members.keys)
              /\ \A key \in DOMAIN x.members.dict :
                    LET first == CHOOSE k \in AddedTo(x) :
                                     /\ OMHas(added[k].members, key)
                                     /\ \A l \in AddedTo(x) :
                                           OMHas(added[l].members, key) => k <= l
                    IN  x.members.dict[key] = added[first].members.dict[key]
    /\ \A k \in 1..Len(added) : \E i \in 1..Len(timeline) : SameSlot(timeline[i], added[k])

\* Two items of one slot brought the same key with different members, and a
\* third item went to another slot.
C24_Witness ==
    /\ Len(added) = MaxLen
    /\ Len(timeline) = 2
    /\ \E k, l \in 1..Len(added) :
          /\ k < l
          /\ SameSlot(added[k], added[l])
          /\ added[k].type = ComponentsType
          /\ \E key \in DOMAIN added[k].members.dict :
                /\ OMHas(added[l].members, key)
                /\ added[k].members.dict[key] # added[l].members.dict[key]

-----------------------------------------------------------------------------
(* Properties of lookupDependencies *)

\* The names one hop from the names of S.
Hop(m, S) == UNION {m[k] : k \in S \cap DOMAIN m}

\* The names reachable from the names of `from` in 1 to n hops: those within
\* the first half of the hops, and those within the other half from them.
RECURSIVE ReachableIn(_, _, _)
ReachableIn(m, from, n) ==
    IF n = 0 \/ from = {} THEN {}
    ELSE IF n = 1 THEN Hop(m, from)
    ELSE UNION {half \cup ReachableIn(m, half, n - (n \div 2)) :
                half \in {ReachableIn(m, from, n \div 2)}}

\* Every name that can be reached is reached in as many hops as the map has
\* names.
NamesOf(m) == DOMAIN m \cup UNION {m[k] : k \in DOMAIN m}

TransitiveClosure(m, name) == ReachableIn(m, {name}, Cardinality(NamesOf(m)))

\* C25: a positive depth yields the names reachable in 1 to depth hops, a
\* negative depth the transitive closure, however long the chains are.
C25_LookupAsClaimed ==
    lookup.pc = "returned" =>
        /\ lookup.depth > 0 =>
              lookup.result = ReachableIn(lookup.componentsMap, {lookup.componentName},
                                          lookup.depth)
        /\ lookup.depth < 0 =>
              lookup.result = TransitiveClosure(lookup.componentsMap, lookup.componentName)

\* The recursion counts its depth in an int8: from 1 up to 127, then from
\* -128 up; it stops when the count meets the limit.
HopsOf(depth) == IF depth > 0 THEN depth ELSE 256 + depth

LookupWithinInt8 ==
    lookup.pc = "returned" =>
        lookup.result = ReachableIn(lookup.componentsMap, {lookup.componentName},
                                    HopsOf(lookup.depth))

-----------------------------------------------------------------------------
(* Properties of OrderBy *)

IsPermutation(seq, of) ==
    /\ Len(seq) = Len(of)
    /\ Range(seq) = Range(of)
    /\ \A i, j \in 1..Len(seq) : seq[i] = seq[j] => i = j

\* Position of the first occurrence of a name in a sequence.
FirstAt(seq, name) == CHOOSE i \in 1..Len(seq) : seq[i] = name /\ \A j \in 1..(i - 1) : seq[j] # name

\* C26: OrderBy leaves a permutation of the previous keys: the keys of the
\* list first, in the order of the list, then the other keys in the order
\* they had; the values are unchanged.
C26_OrderByPermutes ==
    ordering.pc = "returned" =>
        LET keys == ordering.m.keys
            was == ordering.before.keys
            list == ordering.orderList
            listed(k) == keys[k] \in Range(list)
        IN  /\ IsPermutation(keys, was)
            /\ \A i, j \in 1..Len(keys) :
                  /\ (listed(i) /\ ~listed(j)) => i < j
                  /\ (listed(i) /\ listed(j) /\ FirstAt(list, keys[i]) < FirstAt(list, keys[j]))
                        => i < j
                  /\ (~listed(i) /\ ~listed(j) /\ FirstAt(was, keys[i]) < FirstAt(was, keys[j]))
                        => i < j
            /\ ordering.m.dict = ordering.before.dict

\* The same for the lists that name no key twice.
OrderByWithoutRepeats ==
    (\A i, j \in 1..Len(ordering.orderList) :
        ordering.orderList[i] = ordering.orderList[j] => i = j)
    => C26_OrderByPermutes

-----------------------------------------------------------------------------
(* Properties of the usage filter *)

\* The components that hold a propagated version or are to be synced.
HoldEntries == DOMAIN componentVersionMap \cup DOMAIN toSync.dict

\* C27: with FilterByComponentUsage no component outside the used components
\* has an entry in componentVersionMap or in toSync, whether a components
\* item or a variables item led to it.
C27_OnlyUsedPropagated ==
    FilterByComponentUsage => HoldEntries \subseteq GetUsedComponents

\* The same while only components items have been handled.
OnlyUsedFromComponents ==
    (FilterByComponentUsage
        /\ \A k \in 1..Len(handled) : handled[k].type = ComponentsType)
    => HoldEntries \subseteq GetUsedComponents

-----------------------------------------------------------------------------
(* Properties of processAllSections *)

GroupAt(i) == cc.groups.dict[cc.groups.keys[i]]

\* The group is the head group, or the metadata of its bump commit holds the
\* version of the build.
Qualifies(i) ==
    \/ GroupAt(i).name = headGroupName
    \/ /\ brute.files[GroupAt(i).commit].exists
       /\ brute.files[GroupAt(i).commit].version = brute.currentVersion

\* The commit of the group, then its items: the last one of the longest run
\* from the start in which every item satisfies Follows(item, the one before).
LastFollowed(group, start, Follows(_, _)) ==
    LET n == Len(group.items)
        ok(k) == Follows(group.items[k], IF k = 1 THEN start ELSE
                                             getFileHashFromCommit(brute.files[group.items[k - 1]]))
        len == CHOOSE r \in 0..n :
                   /\ \A k \in 1..r : ok(k)
                   /\ r < n => ~ok(r + 1)
    IN  IF len = 0 THEN group.commit ELSE group.items[len]

StartHash(group) ==
    IF group.name = headGroupName THEN brute.originalHash
    ELSE getFileHashFromCommit(brute.files[group.commit])

SameBlob(item, before) ==
    brute.files[item].exists /\ getFileHashFromCommit(brute.files[item]) = before

SameVersion(item, before) ==
    brute.files[item].exists /\ brute.files[item].version = brute.currentVersion

\* The anchor when the groups are examined from the newest (the first key)
\* and the items are followed while the blob stays the same.
AnchorNewestFirst ==
    IF \E i \in 1..Len(cc.groups.keys) : Qualifies(i)
    THEN LET first == CHOOSE i \in 1..Len(cc.groups.keys) :
                          Qualifies(i) /\ \A j \in 1..(i - 1) : ~Qualifies(j)
         IN  LastFollowed(GroupAt(first), StartHash(GroupAt(first)), SameBlob)
    ELSE NoCommit

\* The anchor when the groups are examined from the oldest (the last key)
\* and the items are followed while the file holds the version of the build.
AnchorOldestFirst ==
    IF \E i \in 1..Len(cc.groups.keys) : Qualifies(i)
    THEN LET first == CHOOSE i \in 1..Len(cc.groups.keys) :
                          Qualifies(i) /\ \A j \in (i + 1)..Len(cc.groups.keys) : ~Qualifies(j)
         IN  LastFollowed(GroupAt(first), StartHash(GroupAt(first)), SameVersion)
    ELSE NoCommit

\* C28 as stated: the groups are examined from newest to oldest, the first
\* one that is the head group or whose bump commit holds the version gives the
\* anchor, and its items are followed while the blob hash matches.
C28_NewestFirst == brute.pc = "returned" => brute.commit = AnchorNewestFirst

\* C28 as the code has it: the groups are examined from oldest to newest, and
\* the items of the first one that qualifies are followed while the file is
\* there and holds the version, whatever its blob; the last commit followed
\* is the anchor.
C28_OldestFirst == brute.pc = "returned" => brute.commit = AnchorOldestFirst

\* Two groups, an anchor, and not the one of the newest-first reading.
C28_Witness ==
    /\ brute.pc = "returned"
    /\ Len(cc.groups.keys) >= 2
    /\ brute.commit # NoCommit
    /\ brute.commit # AnchorNewestFirst

=============================================================================
